---- MODULE Spec2Model ----
(***************************************************************************)
(* The Microkit monitor (monitor/src/main.c): the untyped manifest check,  *)
(* the two-phase invocation executor and the fault monitor loop.           *)
(*                                                                         *)
(* A seL4_Word is 64 bits wide.  It is kept as four 16-bit limbs, least    *)
(* significant first, so that shifts, masks and wrap-around are computed   *)
(* exactly as the C code computes them.                                    *)
(***************************************************************************)
EXTENDS Integers, Sequences, FiniteSets, TLC

VARIABLES
    pc,                         \* position of the single thread of control
    untyped_info,               \* embedded manifest (struct untyped_info)
    bi,                         \* kernel boot info (seL4_BootInfo)
    bootstrap_invocation_count,
    bootstrap_invocation_data,
    system_invocation_count,
    system_invocation_data,
    records,                    \* ghost: the records each buffer was laid out from
    buf,                        \* which buffer main is walking
    offset, idx,                \* main's loop variables
    inv,                        \* locals of the running perform_invocation
    ipc_caps, ipc_msg,          \* the IPC buffer: capability slots and message words
    calls,                      \* ghost: every kernel call issued by the executor
    out,                        \* console output
    build,                      \* the build configuration (architecture, CHERI, hypervisor)
    lib,                        \* libmicrokit in a protection domain: masks, deferred signal
    pd_names, pd_tcbs, scheduling_contexts, notification_caps, pd_stack_addrs,
    msg,                        \* monitor(): the message received last
    ops                         \* ghost: kernel operations of the current dispatch

vars == <<pc, untyped_info, bi, bootstrap_invocation_count, bootstrap_invocation_data,
          system_invocation_count, system_invocation_data, records, buf, offset, idx,
          inv, ipc_caps, ipc_msg, calls, out, build, lib,
          pd_names, pd_tcbs, scheduling_contexts, notification_caps, pd_stack_addrs,
          msg, ops>>

-----------------------------------------------------------------------------
(* Bounds of the model *)

\* most records the build tool lays out in the two buffers together
MaxRecords == 3

\* the same for the specification with fairness
MaxFairRecords == 2

-----------------------------------------------------------------------------
(* 64-bit words *)

Limb == 2^16

Word == [1..4 -> 0..(Limb - 1)]

\* the word holding the small number n (n < 2^31)
W(n) == <<n % Limb, (n \div Limb) % Limb, 0, 0>>

\* 2^64 - n for a small n > 0: the two's complement encoding of -n
Neg(n) == <<Limb - n, Limb - 1, Limb - 1, Limb - 1>>

Carry1(a, b) == (a[1] + b[1]) \div Limb
Carry2(a, b) == (a[2] + b[2] + Carry1(a, b)) \div Limb
Carry3(a, b) == (a[3] + b[3] + Carry2(a, b)) \div Limb

\* a + b on seL4_Word (wraps at 2^64)
Add64(a, b) ==
    <<(a[1] + b[1]) % Limb,
      (a[2] + b[2] + Carry1(a, b)) % Limb,
      (a[3] + b[3] + Carry2(a, b)) % Limb,
      (a[4] + b[4] + Carry3(a, b)) % Limb>>

\* a * k on seL4_Word for a loop counter k < 2^15 (wraps at 2^64)
Mul64(a, k) ==
    LET p1 == a[1] * k
        p2 == a[2] * k + (p1 \div Limb)
        p3 == a[3] * k + (p2 \div Limb)
        p4 == a[4] * k + (p3 \div Limb)
    IN  <<p1 % Limb, p2 % Limb, p3 % Limb, p4 % Limb>>

\* a < b on seL4_Word (unsigned)
Lt64(a, b) ==
    \/ a[4] < b[4]
    \/ a[4] = b[4] /\ a[3] < b[3]
    \/ a[4] = b[4] /\ a[3] = b[3] /\ a[2] < b[2]
    \/ a[4] = b[4] /\ a[3] = b[3] /\ a[2] = b[2] /\ a[1] < b[1]

\* cmd >> 32
Shr32(w) == <<w[3], w[4], 0, 0>>

\* cmd & 0xffffffff
Low32(w) == <<w[1], w[2], 0, 0>>

\* ~a
Not64(a) == <<Limb - 1 - a[1], Limb - 1 - a[2], Limb - 1 - a[3], Limb - 1 - a[4]>>

\* a - b on seL4_Word (wraps at 2^64)
Sub64(a, b) == Add64(a, Add64(Not64(b), W(1)))

-----------------------------------------------------------------------------
(* seL4_MessageInfo_t: label:52 capsUnwrapped:3 extraCaps:2 length:7 *)

seL4_MessageInfo_get_length(tag) == tag[1] % 128

seL4_MessageInfo_get_extraCaps(tag) == (tag[1] \div 128) % 4

\* the field read one bit too high and two bits wide
seL4_MessageInfo_get_capsUnwrapped_shifted(tag) == (tag[1] \div 1024) % 4

seL4_MessageInfo_get_capsUnwrapped(tag) == (tag[1] \div 512) % 8

\* the label as a word: tag >> 12
seL4_MessageInfo_get_label(tag) ==
    <<(tag[1] \div 4096) + (tag[2] % 4096) * 16,
      (tag[2] \div 4096) + (tag[3] % 4096) * 16,
      (tag[3] \div 4096) + (tag[4] % 4096) * 16,
      tag[4] \div 4096>>

seL4_NoError == 0
seL4_IllegalOperation == 3

\* result labels the kernel answers a call with
Results == {seL4_NoError, seL4_IllegalOperation}

\* largest result label drawn one by one (the error names end below it)
MaxError == 12

\* every result label up to MaxError
WideResults == 0..MaxError

-----------------------------------------------------------------------------
(* Console output: the sequence of puts / puthex32 / puthex64 calls *)

\* w >> 4
Shr4(w) == [k \in 1..4 |-> (w[k] \div 16) + (IF k < 4 THEN (w[k + 1] % 16) * 4096 ELSE 0)]

\* hexchar with capital letters
hexchar_upper(v) == IF v < 10 THEN 48 + v ELSE (65 - 10) + v

\* hexchar: '0' + v below 10, ('a' - 10) + v from 10 on (characters as their codes)
hexchar(v) == IF v < 10 THEN 48 + v ELSE (97 - 10) + v

\* the loop of puthex32 and puthex64: buffer[i] takes the low digit of val, down to i = 2
\* (buffer[i] of the code is buffer[i + 1] here)
RECURSIVE hex_fill(_, _, _)
hex_fill(buffer, val, i) ==
    IF i > 1
    THEN hex_fill([buffer EXCEPT ![i + 1] = hexchar(val[1] % 16)], Shr4(val), i - 1)
    ELSE buffer

\* the characters puts sends to putc: those before the first 0
RECURSIVE puts_chars(_)
puts_chars(buffer) ==
    IF buffer = <<>> \/ Head(buffer) = 0 THEN <<>>
    ELSE <<Head(buffer)>> \o puts_chars(Tail(buffer))

\* buffer[0] = '0', buffer[1] = 'x', the last byte 0, the digits not yet set
hex_buffer(digits) ==
    [k \in 1..(digits + 3) |-> IF k = 1 THEN 48 ELSE IF k = 2 THEN 120
                                ELSE IF k = digits + 3 THEN 0 ELSE -1]

\* puthex32(val): val is converted to uint32_t
puthex32(val) == puts_chars(hex_fill(hex_buffer(8), Low32(val), 8 + 1))

puthex64(val) == puts_chars(hex_fill(hex_buffer(16), val, 16 + 1))

\* one call of puts, puthex32 or puthex64: the text or the value printed; chars holds the
\* characters of a value where the printing routines themselves are examined
Str(s) == [kind |-> "str", text |-> s, val |-> W(0), chars |-> <<>>]
Hex32(w) == [kind |-> "hex32", text |-> "", val |-> Low32(w), chars |-> <<>>]
Hex64(w) == [kind |-> "hex64", text |-> "", val |-> w, chars |-> <<>>]

\* fail(s): prints and then spins forever
fail_out(s) == <<Str("FAIL: "), Str(s), Str("\n")>>

\* fail returning to its caller, which goes on at return_to
fail_pc_returns(return_to) == return_to

\* where control is after fail was called by code that would go on at return_to: in the
\* for (;;) {} of fail, whatever the caller
fail_pc(return_to) == "HALTED"

sel4_strerror(err) ==
    CASE err = 0 -> "seL4_NoError"
      [] err = 1 -> "seL4_InvalidArgument"
      [] err = 2 -> "seL4_InvalidCapability"
      [] err = 3 -> "seL4_IllegalOperation"
      [] err = 4 -> "seL4_RangeError"
      [] err = 5 -> "seL4_AlignmentError"
      [] err = 6 -> "seL4_FailedLookup"
      [] err = 7 -> "seL4_TruncatedMessage"
      [] err = 8 -> "seL4_DeleteFirst"
      [] err = 9 -> "seL4_RevokeFirst"
      [] err = 10 -> "seL4_NotEnoughMemory"
      [] OTHER -> "<invalid seL4 error>"

-----------------------------------------------------------------------------
(* The untyped manifest *)

MAX_UNTYPED_REGIONS == 256

\* populated entries of a regions[] array in the model
MaxRegions == 2

Region(paddr, size_bits, is_device) ==
    [paddr |-> paddr, size_bits |-> size_bits, is_device |-> is_device]

\* regions[i] of a MAX_UNTYPED_REGIONS-entry array whose populated prefix is arr
region_at(arr, i) == IF i < Len(arr) THEN arr[i + 1] ELSE Region(W(0), 0, 0)

\* a read of entry i of an untyped array past its MAX_UNTYPED_REGIONS entries: what the
\* program does from there on is undefined
OutOfBounds(array, i) == [kind |-> "undefined", text |-> array, val |-> W(i), chars |-> <<>>]

mismatch_out(what, i, exp, got) ==
    <<Str("MON|ERROR: " \o what \o " mismatch for untyped region: "), Hex32(W(i)),
      Str("  expected " \o what \o ": "), exp, Str("  boot info " \o what \o ": "), got,
      Str("\n"), Str(what \o " mismatch")>>

\* the index at which a loop over the slot range ends: the size of the slot range, or
\* MAX_UNTYPED_REGIONS + 1 when the range is larger (the pass at MAX_UNTYPED_REGIONS reads
\* past the arrays; what follows it is undefined)
loop_end(ui) ==
    LET n == Sub64(ui.cap_end, ui.cap_start)
    IN  IF Lt64(W(MAX_UNTYPED_REGIONS), n) THEN MAX_UNTYPED_REGIONS + 1 ELSE n[1]

\* the passes lo .. hi - 1 of the loop of check_untypeds_match, one after the other (the
\* passes are split in halves); acc.ok is false once the function has returned, acc.reads
\* is the number of entries of regions[] read
RECURSIVE check_loop(_, _, _, _, _)
check_loop(ui, b, acc, lo, hi) ==
    LET e == region_at(ui.regions, lo)
        k == region_at(b.untypedList, lo)
        mid == (lo + hi) \div 2
    IN  IF hi <= lo \/ ~acc.ok
        THEN acc
        ELSE IF hi > lo + 1
        THEN check_loop(ui, b, check_loop(ui, b, acc, lo, mid), mid, hi)
        ELSE IF lo >= MAX_UNTYPED_REGIONS
        THEN [ok |-> FALSE, reads |-> lo + 1, out |-> <<OutOfBounds("regions", lo)>>]
        ELSE IF e.paddr # k.paddr
        THEN [ok |-> FALSE, reads |-> lo + 1,
              out |-> mismatch_out("paddr", lo, Hex64(e.paddr), Hex64(k.paddr))]
        ELSE IF e.size_bits # k.size_bits
        THEN [ok |-> FALSE, reads |-> lo + 1,
              out |-> mismatch_out("size_bits", lo, Hex32(W(e.size_bits)),
                                   Hex32(W(k.size_bits)))]
        ELSE IF e.is_device # k.is_device
        THEN [ok |-> FALSE, reads |-> lo + 1,
              out |-> mismatch_out("is_device", lo, Hex32(W(e.is_device)),
                                   Hex32(W(k.is_device)))]
        ELSE [acc EXCEPT !.reads = lo + 1]

\* the loop of check_untypeds_match from index i on, and what follows it
check_regions(ui, b, i) ==
    LET acc == check_loop(ui, b, [ok |-> TRUE, reads |-> i, out |-> <<>>], i, loop_end(ui))
    IN  IF acc.ok
        THEN [acc EXCEPT
                !.out = <<Str("MON|INFO: bootinfo untyped list matches expected list\n")>>]
        ELSE acc

\* the checker without the comparison of cap_end
check_untypeds_match_no_end(ui, b) ==
    IF ui.cap_start # b.start
    THEN [ok |-> FALSE, reads |-> 0, out |-> <<Str("cap start mismatch")>>]
    ELSE check_regions(ui, b, 0)

\* the checker with its verdict ignored
check_untypeds_match_always(ui, b) ==
    [ok |-> TRUE, reads |-> 0,
     out |-> <<Str("MON|INFO: bootinfo untyped list matches expected list\n")>>]

check_untypeds_match(ui, b) ==
    IF ui.cap_start # b.start
    THEN [ok |-> FALSE, reads |-> 0,
          out |-> <<Str("MON|ERROR: cap start mismatch. Expected cap start: "),
                    Hex32(ui.cap_start), Str("  boot info cap start: "), Hex32(b.start),
                    Str("\n"), Str("cap start mismatch")>>]
    ELSE IF ui.cap_end # b["end"]
    THEN [ok |-> FALSE, reads |-> 0,
          out |-> <<Str("MON|ERROR: cap end mismatch. Expected cap end: "),
                    Hex32(ui.cap_end), Str("  boot info cap end: "), Hex32(b["end"]),
                    Str("\n"), Str("cap end mismatch")>>]
    ELSE check_regions(ui, b, 0)

\* region values the kernel may report: a base region and one variant per field
RegionValues ==
    {Region(W(4096), 12, 0), Region(W(8192), 12, 0),
     Region(W(4096), 13, 0), Region(W(4096), 12, 1)}

\* region values the build tool embeds
EmbeddedRegionValues == {Region(W(4096), 12, 0), Region(W(8192), 12, 0)}

\* manifests the build tool may embed: cap range [10, 10 + n)
EmbeddedManifests ==
    {[cap_start |-> W(10), cap_end |-> W(10 + n), regions |-> r] :
        n \in 0..MaxRegions, r \in [1..MaxRegions -> EmbeddedRegionValues]}

\* boot infos the kernel may report
BootInfos ==
    {[start |-> W(s), end |-> W(s + n), untypedList |-> r] :
        s \in {10, 11}, n \in 0..MaxRegions, r \in [1..MaxRegions -> RegionValues]}

-----------------------------------------------------------------------------
(* Invocation records *)

\* a message tag word from its fields
MkTag(label, capsUnwrapped, extraCaps, length) ==
    W(label * 4096 + capsUnwrapped * 512 + extraCaps * 128 + length)

\* a header word: hi in the high 32 bits, the tag in the low 32 bits
Header(hi, tag) == <<tag[1], tag[2], hi % Limb, hi \div Limb>>

\* one call: one capability, two message words
RecSingle == <<Header(0, MkTag(7, 0, 1, 2)), W(100), W(20), W(1), W(2)>>

\* three calls: one capability, five message words, then the stride words
RecIter ==
    <<Header(2, MkTag(5, 0, 1, 5)), W(100),
      W(30),
      W(1), W(2), W(3), Neg(1), W(5),
      W(10),
      W(1),
      W(1), W(0), Neg(1), W(7), W(16)>>

\* two calls, no capability, no message word: only the target stride
RecBare == <<Header(1, MkTag(2, 0, 0, 0)), W(200), Neg(8)>>

\* a record whose tag has capsUnwrapped set
RecUnwrapped == <<Header(0, MkTag(1, 1, 0, 0)), W(300)>>

Catalog == {RecSingle, RecIter, RecBare, RecUnwrapped}

\* the scripts of n records
Scripts(n) == [1..n -> Catalog]

RECURSIVE Flatten(_)
Flatten(rs) == IF rs = <<>> THEN <<>> ELSE Head(rs) \o Flatten(Tail(rs))

-----------------------------------------------------------------------------
(* perform_invocation *)

\* an indeterminate word: an uninitialised local, or a register the kernel's reply overwrote
Junk == <<-1, -1, -1, -1>>

NoInv ==
    [iterations |-> W(0), tag |-> W(0), service |-> W(0), service_incr |-> Junk,
     cap_count |-> 0, mr_count |-> 0, cap_offset |-> 0, mr_offset |-> 0,
     cap_incr_offset |-> -1, mr_incr_offset |-> -1, next_offset |-> 0,
     i |-> 0, mr |-> <<Junk, Junk, Junk, Junk>>]

invocation_data == IF buf = "bootstrap" THEN bootstrap_invocation_data ELSE system_invocation_data

invocation_count == IF buf = "bootstrap" THEN bootstrap_invocation_count ELSE system_invocation_count

\* the loop stopping one record early
loop_running_one_short == Lt64(W(idx + 1), invocation_count)

\* idx < count: the test of main's two loops
loop_running == Lt64(W(idx), invocation_count)

\* the result of the call left unchecked
call_failed_ignored(result) == FALSE

\* the result test inverted: a call that succeeded is taken to have failed
call_failed_inverted(result) == result = seL4_NoError

\* result != seL4_NoError
call_failed(result) == result # seL4_NoError

\* the counter stepping by two
next_i_skip(i) == i + 2

\* i++
next_i(i) == i + 1

\* the high half taken as the count itself
iterations_of_raw(cmd) == Shr32(cmd)

\* (cmd >> 32) + 1
iterations_of(cmd) == Add64(Shr32(cmd), W(1))

\* the next offset with the target's stride word left out
record_end_short(mr_offset, mr_count, cap_count, multi) ==
    IF multi THEN mr_offset + mr_count + cap_count + mr_count ELSE mr_offset + mr_count

\* the strides skipped whatever the iteration count is
record_end_strides_always(mr_offset, mr_count, cap_count, multi) ==
    mr_offset + mr_count + 1 + cap_count + mr_count

\* the offset of the next record: past the strides when the record has any
record_end(mr_offset, mr_count, cap_count, multi) ==
    IF multi THEN mr_offset + mr_count + 1 + cap_count + mr_count ELSE mr_offset + mr_count

\* layout of the record at offset o of d: the code before the iteration loop
parse_invocation(d, o) ==
    LET cmd == d[o + 1]
        iterations == iterations_of(cmd)
        tag == Low32(cmd)
        cap_count == seL4_MessageInfo_get_extraCaps(tag)
        mr_count == seL4_MessageInfo_get_length(tag)
        cap_offset == o + 2
        mr_offset == cap_offset + cap_count
        multi == Lt64(W(1), iterations)
    IN  [iterations |-> iterations, tag |-> tag, service |-> d[o + 2],
         service_incr |-> IF multi THEN d[mr_offset + mr_count + 1] ELSE Junk,
         cap_count |-> cap_count, mr_count |-> mr_count,
         cap_offset |-> cap_offset, mr_offset |-> mr_offset,
         cap_incr_offset |-> IF multi THEN mr_offset + mr_count + 1 ELSE -1,
         mr_incr_offset |-> IF multi THEN mr_offset + mr_count + 1 + cap_count ELSE -1,
         next_offset |-> record_end(mr_offset, mr_count, cap_count, multi),
         i |-> 0, mr |-> <<Junk, Junk, Junk, Junk>>]

\* the stride added once, whatever the iteration
iter_value_no_mul(base, incr, i) == IF i > 0 THEN Add64(base, incr) ELSE base

\* the value of a field in iteration i: base, plus stride * i when i > 0
iter_value(base, incr, i) == IF i > 0 THEN Add64(base, Mul64(incr, i)) ELSE base

\* the word at offset o of d, or Junk when the offset was never set
word_at(d, o) == IF o < 0 THEN Junk ELSE d[o + 1]

\* capability j of iteration i
cap_value(d, v, j) ==
    iter_value(d[v.cap_offset + j + 1], word_at(d, v.cap_incr_offset + j), v.i)

\* message word j of iteration i
mr_value(d, v, j) ==
    iter_value(d[v.mr_offset + j + 1], word_at(d, v.mr_incr_offset + j), v.i)

\* the capability slots after the seL4_SetCap loop
caps_after(d, v) ==
    [j \in (DOMAIN ipc_caps) \cup 0..(v.cap_count - 1) |->
        IF j < v.cap_count THEN cap_value(d, v, j) ELSE ipc_caps[j]]

\* every message word written with seL4_SetMR, the first four included
msg_after_all_words(d, v) ==
    [j \in (DOMAIN ipc_msg) \cup 0..(v.mr_count - 1) |->
        IF j < v.mr_count THEN mr_value(d, v, j) ELSE ipc_msg[j]]

\* the message words of the IPC buffer after the seL4_SetMR calls (j >= 4 only)
msg_after(d, v) ==
    [j \in (DOMAIN ipc_msg) \cup 4..(v.mr_count - 1) |->
        IF j >= 4 /\ j < v.mr_count THEN mr_value(d, v, j) ELSE ipc_msg[j]]

\* mr0..mr3 loaded from the record in the first iteration only
regs_after_first_only(d, v) ==
    [j \in 1..4 |-> IF j - 1 < v.mr_count /\ v.i = 0 THEN mr_value(d, v, j - 1) ELSE v.mr[j]]

\* mr0..mr3 after the message loop
regs_after(d, v) ==
    [j \in 1..4 |-> IF j - 1 < v.mr_count THEN mr_value(d, v, j - 1) ELSE v.mr[j]]

\* what seL4_CallWithMRs hands to the kernel: mr0..mr3 (regs), the tag's extraCaps
\* capability slots and length message words, the first four from mr0..mr3, the rest from
\* the IPC buffer
call_of(service, tag, caps, regs, msgs, result) ==
    [buf |-> buf, idx |-> idx, i |-> inv.i, service |-> service, tag |-> tag,
     regs |-> regs,
     caps |-> [j \in 1..seL4_MessageInfo_get_extraCaps(tag) |-> caps[j - 1]],
     mrs |-> [j \in 1..seL4_MessageInfo_get_length(tag) |->
                 IF j <= 4 THEN regs[j] ELSE msgs[j - 1]],
     result |-> result]

-----------------------------------------------------------------------------
(* The component registry and the fault channel *)

MAX_PDS == 64

seL4_Fault_NullFault == 0
seL4_Fault_CapFault == 1
seL4_Fault_UnknownSyscall == 2
seL4_Fault_UserException == 3
seL4_Fault_VMFault == 5
seL4_Fault_VCPUFault == 7

\* labels a message on the fault endpoint may carry
Labels ==
    {seL4_Fault_NullFault, seL4_Fault_CapFault, seL4_Fault_UnknownSyscall,
     seL4_Fault_UserException, seL4_Fault_VMFault}

\* the same with the label of a vCPU fault
WideLabels == Labels \cup {seL4_Fault_VCPUFault}

\* message words of a fault message (the indices seL4_GetMR is called with)
seL4_VMFault_IP == 0
seL4_VMFault_Addr == 1
seL4_VMFault_PrefetchFault == 2
seL4_VMFault_FSR == 3
seL4_CapFault_IP == 0
seL4_CapFault_Addr == 1
seL4_CapFault_InRecvPhase == 2
seL4_CapFault_LookupFailureType == 3
seL4_CapFault_BitsLeft == 4
seL4_CapFault_DepthMismatch_BitsFound == 5
seL4_CapFault_GuardMismatch_GuardFound == 5
seL4_CapFault_GuardMismatch_BitsFound == 6
seL4_VCPUFault_HSR == 0

\* lookup failure types of a capability fault
seL4_NoFailure == 0
seL4_InvalidRoot == 1
seL4_MissingCapability == 2
seL4_DepthMismatch == 3
seL4_GuardMismatch == 4

\* the message words of the IPC buffer, the first ws given and the rest zero
MsgWords(ws) == [k \in 1..7 |-> IF k <= Len(ws) THEN ws[k] ELSE W(0)]

seL4_GetMR(m, i) == m.mr[i + 1]

\* the build configurations: ARCH_riscv64 with or without CONFIG_HAVE_CHERI, ARCH_aarch64
\* with or without CONFIG_ARM_HYPERVISOR_SUPPORT
Build(arch, cheri, hyp) == [arch |-> arch, cheri |-> cheri, hyp |-> hyp]

MainBuild == Build("riscv64", TRUE, FALSE)

Builds ==
    {Build("riscv64", FALSE, FALSE), Build("riscv64", TRUE, FALSE),
     Build("aarch64", FALSE, FALSE), Build("aarch64", FALSE, TRUE)}

\* badges a message may carry: the two components, the last (unnamed) slot, and the
\* first value past the arrays
Badges == {1, 2, MAX_PDS - 1, MAX_PDS}

\* what a read past the end of a registry array may yield
OutOfBoundsWords == {W(0), W(57005)}

\* the registry the build tool embeds: components 1 and 2
RegistryNames == [b \in 0..(MAX_PDS - 1) |-> IF b = 1 THEN "pd1" ELSE IF b = 2 THEN "pd2" ELSE ""]

RegistryWords(base) ==
    [b \in 0..(MAX_PDS - 1) |-> IF b \in {1, 2} THEN W(base + b) ELSE W(0)]

\* the stack bases of components 1 and 2
RegistryStacks(base1, base2) ==
    [b \in 0..(MAX_PDS - 1) |-> IF b = 1 THEN base1 ELSE IF b = 2 THEN base2 ELSE W(0)]

\* registries with a stack base above the first pages and one below one page, and with a
\* stack base of one page and an unset one
StackRegistries == {RegistryStacks(W(65536), W(2048)), RegistryStacks(W(4096), W(0))}

\* the message being handled; reads (ghost) lists the registry arrays the loop has indexed
\* for it, in order, each with the index
NoMsg == [label |-> 0, badge |-> 0, tcb_cap |-> W(0), mr |-> MsgWords(<<>>), reads |-> <<>>]

\* a kernel call of the monitor loop, with the length of the output printed before it
KernelOp(op, a, b, err, at) == [op |-> op, a |-> a, b |-> b, err |-> err, at |-> at]

-----------------------------------------------------------------------------
(* The fault decoders *)

\* the value a switch compares with its case labels: the word as a number when it is
\* below 2^31, and -1 (which no case label is) for every larger word
switch_key(w) == IF w[3] = 0 /\ w[4] = 0 /\ w[2] < 2^15 THEN w[1] + w[2] * Limb ELSE -1

\* bit n of a word
bit(w, n) == (w[(n \div 16) + 1] \div 2^(n % 16)) % 2

\* w >> 26
Shr26(w) ==
    <<(w[2] \div 1024) + (w[3] % 1024) * 64,
      (w[3] \div 1024) + (w[4] % 1024) * 64,
      w[4] \div 1024,
      0>>

\* cheri_type is (fsr >> 4) & 0xf
riscv_fsr_cheri_type_to_string(cheri_type) ==
    CASE cheri_type = 0 -> "CHERI instruction fetch fault"
      [] cheri_type = 1 -> "CHERI data fault due to load, store or AMO"
      [] cheri_type = 2 -> "CHERI jump or branch fault"
      [] OTHER -> "Unexpected CHERI fault type"

\* the switch on fsr & 0xf of a CHERI build
riscv_cheri_cause_to_string(cause) ==
    CASE cause = 0 -> "Tag violation"
      [] cause = 1 -> "Seal violation"
      [] cause = 2 -> "Permission violation"
      [] cause = 3 -> "Invalid address violation"
      [] cause = 4 -> "Bounds violation"
      [] OTHER -> "Unexpected CHERI fault"

\* the switch on the whole fsr, with Software check (18) left out
riscv_cause_to_string_no_18(k) ==
    CASE k = 0 -> "Instruction address misaligned"
      [] k = 1 -> "Instruction access fault"
      [] k = 2 -> "Illegal instruction"
      [] k = 3 -> "Breakpoint"
      [] k = 4 -> "Load address misaligned"
      [] k = 5 -> "Load access fault"
      [] k = 6 -> "Store/AMO address misaligned"
      [] k = 7 -> "Store/AMO access fault"
      [] k = 8 -> "Environment call from U-mode"
      [] k = 9 -> "Environment call from S-mode"
      [] k = 12 -> "Instruction page fault"
      [] k = 13 -> "Load page fault"
      [] k = 15 -> "Store/AMO page fault"
      [] k = 19 -> "Hardware error"
      [] OTHER -> "<Unexpected FSR>"

\* the switch on the whole fsr
riscv_cause_to_string(k) ==
    CASE k = 0 -> "Instruction address misaligned"
      [] k = 1 -> "Instruction access fault"
      [] k = 2 -> "Illegal instruction"
      [] k = 3 -> "Breakpoint"
      [] k = 4 -> "Load address misaligned"
      [] k = 5 -> "Load access fault"
      [] k = 6 -> "Store/AMO address misaligned"
      [] k = 7 -> "Store/AMO access fault"
      [] k = 8 -> "Environment call from U-mode"
      [] k = 9 -> "Environment call from S-mode"
      [] k = 12 -> "Instruction page fault"
      [] k = 13 -> "Load page fault"
      [] k = 15 -> "Store/AMO page fault"
      [] k = 18 -> "Software check"
      [] k = 19 -> "Hardware error"
      [] OTHER -> "<Unexpected FSR>"

\* the CHERI cause selected by the low byte of the word
riscv_fsr_to_string_low_byte(b, fsr) ==
    IF b.cheri /\ bit(fsr, 11) = 1
    THEN riscv_cheri_cause_to_string(fsr[1] % 256)
    ELSE riscv_cause_to_string(switch_key(fsr))

\* riscv_fsr_to_string: the CHERI causes when bit 11 is set (CONFIG_HAVE_CHERI), the
\* switch on the whole word otherwise
riscv_fsr_to_string(b, fsr) ==
    IF b.cheri /\ bit(fsr, 11) = 1
    THEN riscv_cheri_cause_to_string(fsr[1] % 16)
    ELSE riscv_cause_to_string(switch_key(fsr))

ec_to_string(ec) ==
    LET k == switch_key(ec)
    IN
    CASE k = 0 -> "Unknown reason"
      [] k = 1 -> "Trapped WFI or WFE instruction execution"
      [] k = 3 -> "Trapped MCR or MRC access with (coproc==0b1111) this is not reported using EC 0b000000"
      [] k = 4 -> "Trapped MCRR or MRRC access with (coproc==0b1111) this is not reported using EC 0b000000"
      [] k = 5 -> "Trapped MCR or MRC access with (coproc==0b1110)"
      [] k = 6 -> "Trapped LDC or STC access"
      [] k = 7 -> "Access to SVC, Advanced SIMD or floating-point functionality trapped"
      [] k = 12 -> "Trapped MRRC access with (coproc==0b1110)"
      [] k = 13 -> "Branch Target Exception"
      [] k = 17 -> "SVC instruction execution in AArch32 state"
      [] k = 21 -> "SVC instruction execution in AArch64 state"
      [] k = 24 -> "Trapped MSR, MRS or System instruction exuection in AArch64 state, this is not reported using EC 0xb000000, 0b000001 or 0b000111"
      [] k = 25 -> "Access to SVE functionality trapped"
      [] k = 28 -> "Exception from a Pointer Authentication instruction authentication failure"
      [] k = 32 -> "Instruction Abort from a lower Exception level"
      [] k = 33 -> "Instruction Abort taken without a change in Exception level"
      [] k = 34 -> "PC alignment fault exception"
      [] k = 36 -> "Data Abort from a lower Exception level"
      [] k = 37 -> "Data Abort taken without a change in Exception level"
      [] k = 38 -> "SP alignment faultr exception"
      [] k = 40 -> "Trapped floating-point exception taken from AArch32 state"
      [] k = 44 -> "Trapped floating-point exception taken from AArch64 state"
      [] k = 47 -> "SError interrupt"
      [] k = 48 -> "Breakpoint exception from a lower Exception level"
      [] k = 49 -> "Breakpoint exception taken without a change in Exception level"
      [] k = 50 -> "Software Step exception from a lower Exception level"
      [] k = 51 -> "Software Step exception taken without a change in Exception level"
      [] k = 52 -> "Watchpoint exception from a lower Exception level"
      [] k = 53 -> "Watchpoint exception taken without a change in Exception level"
      [] k = 56 -> "BKPT instruction execution in AArch32 state"
      [] k = 60 -> "BRK instruction execution in AArch64 state"
      [] OTHER -> "<invalid EC>"

data_abort_dfsc_to_string(dfsc) ==
    CASE dfsc = 0 -> "address size fault, level 0"
      [] dfsc = 1 -> "address size fault, level 1"
      [] dfsc = 2 -> "address size fault, level 2"
      [] dfsc = 3 -> "address size fault, level 3"
      [] dfsc = 4 -> "translation fault, level 0"
      [] dfsc = 5 -> "translation fault, level 1"
      [] dfsc = 6 -> "translation fault, level 2"
      [] dfsc = 7 -> "translation fault, level 3"
      [] dfsc = 9 -> "access flag fault, level 1"
      [] dfsc = 10 -> "access flag fault, level 2"
      [] dfsc = 11 -> "access flag fault, level 3"
      [] dfsc = 13 -> "permission fault, level 1"
      [] dfsc = 14 -> "permission fault, level 2"
      [] dfsc = 15 -> "permission fault, level 3"
      [] dfsc = 16 -> "synchronuos external abort"
      [] dfsc = 17 -> "synchronous tag check fault"
      [] dfsc = 20 -> "synchronous external abort, level 0"
      [] dfsc = 21 -> "synchronous external abort, level 1"
      [] dfsc = 22 -> "synchronous external abort, level 2"
      [] dfsc = 23 -> "synchronous external abort, level 3"
      [] dfsc = 24 -> "syncrhonous partity or ECC error"
      [] dfsc = 28 -> "syncrhonous partity or ECC error, level 0"
      [] dfsc = 29 -> "syncrhonous partity or ECC error, level 1"
      [] dfsc = 30 -> "syncrhonous partity or ECC error, level 2"
      [] dfsc = 31 -> "syncrhonous partity or ECC error, level 3"
      [] dfsc = 33 -> "alignment fault"
      [] dfsc = 48 -> "tlb conflict abort"
      [] dfsc = 49 -> "unsupported atomic hardware update fault"
      [] OTHER -> "<unexpected DFSC>"

UBSAN_ARM64_BRK_IMM == 21760
UBSAN_ARM64_BRK_MASK == 255
ESR_COMMENT_MASK == 2^16 - 1
ARM64_BRK_EC == 60

usban_code_to_string(code) ==
    CASE code = 0 -> "add overflow"
      [] code = 1 -> "builtin unreachable"
      [] code = 2 -> "control-flow-integrity check fail"
      [] code = 3 -> "division remainder overflow"
      [] code = 4 -> "dynamic type cache miss"
      [] code = 5 -> "float case overflow"
      [] code = 6 -> "function type mismatch"
      [] code = 7 -> "implicit conversion"
      [] code = 8 -> "invalid builtin"
      [] code = 9 -> "invalid objc cast"
      [] code = 10 -> "load invalid value"
      [] code = 11 -> "missing return"
      [] code = 12 -> "multiplication overflow"
      [] code = 13 -> "negate overflow"
      [] code = 14 -> "nullability argument"
      [] code = 15 -> "nullability return"
      [] code = 16 -> "non-null argument"
      [] code = 17 -> "non-null return"
      [] code = 18 -> "out of bounds access"
      [] code = 19 -> "pointer overflow"
      [] code = 20 -> "shift out of bounds"
      [] code = 21 -> "subtraction overflow"
      [] code = 22 -> "type mismatch"
      [] code = 23 -> "alignment assumption"
      [] code = 24 -> "variable-length-array bound not positive"
      [] OTHER -> "unknown reason"

-----------------------------------------------------------------------------
(* The manifest dumps *)

\* 1ULL << n
Pow2(n) ==
    [k \in 1..4 |-> IF n \div 16 = k - 1 THEN 2^(n % 16) ELSE 0]

range_out(start, end, is_device) ==
    <<Str("                                     paddr: "), Hex64(start), Str(" - "),
      Hex64(end), Str(" ("), Str(IF is_device # 0 THEN "device" ELSE "normal"), Str(")\n")>>

\* the passes lo .. hi - 1 of the loop of dump_untyped_info, one after the other (the
\* passes are split in halves); acc holds the pending range and what was printed
RECURSIVE dump_loop(_, _, _, _)
dump_loop(ui, acc, lo, hi) ==
    LET r == region_at(ui.regions, lo)
        mid == (lo + hi) \div 2
    IN  IF hi <= lo \/ acc.undefined
        THEN acc
        ELSE IF hi > lo + 1
        THEN dump_loop(ui, dump_loop(ui, acc, lo, mid), mid, hi)
        ELSE IF lo >= MAX_UNTYPED_REGIONS
        THEN [acc EXCEPT !.undefined = TRUE, !.out = @ \o <<OutOfBounds("regions", lo)>>]
        ELSE IF r.paddr # acc.end \/ r.is_device # acc.is_device
        THEN [start |-> r.paddr, end |-> Add64(r.paddr, Pow2(r.size_bits)),
              is_device |-> r.is_device, undefined |-> FALSE,
              out |-> acc.out \o range_out(acc.start, acc.end, acc.is_device)]
        ELSE [acc EXCEPT !.end = Add64(@, Pow2(r.size_bits))]

\* the loop of dump_untyped_info from index i on, and the range printed after it
dump_ranges(ui, i, start, end, is_device) ==
    LET acc == dump_loop(ui, [start |-> start, end |-> end, is_device |-> is_device,
                              undefined |-> FALSE, out |-> <<>>], i, loop_end(ui))
    IN  IF acc.undefined
        THEN acc.out
        ELSE acc.out \o range_out(acc.start, acc.end, acc.is_device)

dump_untyped_info(ui) ==
    LET r == region_at(ui.regions, 0)
    IN  <<Str("\nUntyped Info Expected Memory Ranges\n")>>
        \o dump_ranges(ui, 1, r.paddr, Add64(r.paddr, Pow2(r.size_bits)), r.is_device)

\* dump_bootinfo (monitor/src/debug.c): the kernel's slot range and every untyped it lists
RECURSIVE dump_untyped_list(_, _)
dump_untyped_list(b, k) ==
    IF k > Len(b.untypedList) THEN <<>>
    ELSE <<Str("untyped: "), Hex64(b.untypedList[k].paddr), Hex32(W(b.untypedList[k].size_bits)),
           Hex32(W(b.untypedList[k].is_device)), Str("\n")>>
         \o dump_untyped_list(b, k + 1)

dump_bootinfo(b) ==
    <<Str("Bootinfo: "), Hex64(b.start), Hex64(b["end"]), Str("\n")>>
    \o dump_untyped_list(b, 1)

\* the two dumps in the other order
mismatch_dumps_swapped(b, ui) == dump_untyped_info(ui) \o dump_bootinfo(b)

\* the dumps main makes when the check failed: the kernel's manifest, then the embedded one
mismatch_dumps(b, ui) == dump_bootinfo(b) \o dump_untyped_info(ui)

-----------------------------------------------------------------------------
(* libmicrokit: the channel calls of a protection domain *)

MICROKIT_MAX_CHANNELS == 62
MICROKIT_MAX_CHANNEL_ID == MICROKIT_MAX_CHANNELS - 1
BASE_OUTPUT_NOTIFICATION_CAP == 10
BASE_ENDPOINT_CAP == 74
BASE_IRQ_CAP == 138

\* label of an IRQ acknowledgement in the invocation labels of libsel4 (its value depends
\* on the kernel configuration and is not zero)
IRQAckIRQ == 27

\* the masks the tool patches, the deferred signal, and of the call made last: its name
\* and channel, the kernel operations it issued, what it printed, what it returned, and
\* (ghost) the deferred signal it found
Lib(notifications, irqs, pps) ==
    [microkit_notifications |-> notifications, microkit_irqs |-> irqs, microkit_pps |-> pps,
     microkit_have_signal |-> FALSE, microkit_signal_cap |-> 0, microkit_signal_msg |-> W(0),
     fn |-> "", ch |-> 0, ops |-> <<>>, dbg |-> <<>>, ret |-> W(0),
     was |-> <<FALSE, 0, W(0)>>]

NoLib == Lib(W(0), W(0), W(0))

\* masks with channels 1 and 61, 0 and 61, 5 and 61; with every bit set, bits 62 and 63
\* too; and with no bit set
Libs ==
    {Lib(<<2, 0, 0, 8192>>, <<1, 0, 0, 8192>>, <<32, 0, 0, 8192>>),
     Lib(Neg(1), Neg(1), Neg(1)), NoLib}

\* channels given to a call (microkit_channel is an unsigned int)
Channels == {0, 1, 5, 61, 62, 63, 64, 2147483647}

\* the bound of the channel taken to be 63
channel_is_invalid_up_to_63(ch, mask) == IF ch > 63 THEN TRUE ELSE bit(mask, ch) = 0

\* ch > MICROKIT_MAX_CHANNEL_ID || (mask & (1ULL << ch)) == 0
channel_is_invalid(ch, mask) ==
    IF ch > MICROKIT_MAX_CHANNEL_ID THEN TRUE ELSE bit(mask, ch) = 0

\* the start of a call: nothing issued, printed or returned yet
lib_call(fn, ch) ==
    [lib EXCEPT !.fn = fn, !.ch = ch, !.ops = <<>>, !.dbg = <<>>, !.ret = W(0),
                !.was = <<lib.microkit_have_signal, lib.microkit_signal_cap,
                          lib.microkit_signal_msg>>]

\* the complaint of a call given an invalid channel; the call then returns
invalid_channel(fn, ch) ==
    [lib_call(fn, ch) EXCEPT
        !.dbg = <<Str("microkit_name"), Str(" " \o fn \o ": invalid channel given '"),
                  [kind |-> "put32", text |-> "", val |-> W(ch), chars |-> <<>>],
                  Str("'\n")>>]

\* a deferred signal that is dropped when one is pending already
deferred_keeps_pending(fn, ch, cap, label) ==
    IF lib.microkit_have_signal THEN lib_call(fn, ch)
    ELSE [lib_call(fn, ch) EXCEPT !.microkit_have_signal = TRUE,
                                  !.microkit_signal_msg = MkTag(label, 0, 0, 0),
                                  !.microkit_signal_cap = cap]

\* the three assignments of a deferred call
deferred(fn, ch, cap, label) ==
    [lib_call(fn, ch) EXCEPT !.microkit_have_signal = TRUE,
                             !.microkit_signal_msg = MkTag(label, 0, 0, 0),
                             !.microkit_signal_cap = cap]

-----------------------------------------------------------------------------
(* Initial states *)

\* the manifest of the running example: one region {0x1000, 12, normal}, slots [10, 11)
MainManifest ==
    [cap_start |-> W(10), cap_end |-> W(11),
     regions |-> [k \in 1..MaxRegions |-> Region(W(4096), 12, 0)]]

\* the kernel reports the same list, or the region with size class 13
MainBootInfos ==
    {[start |-> W(10), end |-> W(11),
      untypedList |-> [k \in 1..MaxRegions |-> Region(W(4096), sb, 0)]] : sb \in {12, 13}}

InitRest ==
    /\ pc = "main"
    /\ buf = "bootstrap"
    /\ offset = 0
    /\ idx = 0
    /\ inv = NoInv
    /\ ipc_caps = << >>
    /\ ipc_msg = << >>
    /\ calls = <<>>
    /\ out = <<>>
    /\ pd_names = RegistryNames
    /\ pd_tcbs = RegistryWords(100)
    /\ scheduling_contexts = RegistryWords(200)
    /\ notification_caps = RegistryWords(300)
    /\ msg = NoMsg
    /\ ops = <<>>
    /\ lib = NoLib

InitScripts(boot, sys) ==
    /\ records = [bootstrap |-> boot, system |-> sys]
    /\ bootstrap_invocation_count = W(Len(boot))
    /\ bootstrap_invocation_data = Flatten(boot)
    /\ system_invocation_count = W(Len(sys))
    /\ system_invocation_data = Flatten(sys)

Init ==
    /\ untyped_info = MainManifest
    /\ bi \in MainBootInfos
    /\ \E n \in 0..MaxRecords, m \in 0..MaxRecords :
        /\ n + m <= MaxRecords
        /\ \E boot \in Scripts(n), sys \in Scripts(m) : InitScripts(boot, sys)
    /\ build = MainBuild
    /\ pd_stack_addrs = RegistryStacks(W(65536), W(65536))
    /\ InitRest

-----------------------------------------------------------------------------
(* main *)

\* main up to the first loop: the manifest check, and on a mismatch the dumps and fail;
\* after a read past the end of regions[] the check may return either verdict
main_check ==
    /\ pc = "main"
    /\ LET r == check_untypeds_match(untyped_info, bi)
           banner == <<Str("MON|INFO: Microkit Bootstrap\n")>> \o r.out
       IN  \E ok \in (IF r.reads > MAX_UNTYPED_REGIONS THEN BOOLEAN ELSE {r.ok}) :
           IF ok
           THEN /\ out' = banner
                        \o <<Str("MON|INFO: Number of bootstrap invocations: "),
                             Hex32(bootstrap_invocation_count), Str("\n"),
                             Str("MON|INFO: Number of system invocations:    "),
                             Hex32(system_invocation_count), Str("\n")>>
                /\ pc' = "loop"
           ELSE /\ out' = banner \o mismatch_dumps(bi, untyped_info)
                        \o fail_out("MON|ERROR: found mismatch between boot info and untyped info")
                /\ pc' = fail_pc("loop")
    /\ buf' = "bootstrap"
    /\ offset' = 0
    /\ idx' = 0
    /\ UNCHANGED <<untyped_info, bi, bootstrap_invocation_count, bootstrap_invocation_data,
                   system_invocation_count, system_invocation_data, records, inv, ipc_caps,
                   ipc_msg, calls, build, lib, pd_names, pd_tcbs, scheduling_contexts, notification_caps,
                   pd_stack_addrs, msg, ops>>

\* perform_invocation up to the iteration loop: the record is laid out and its tag checked
perform_invocation_enter ==
    /\ pc = "loop"
    /\ loop_running
    /\ LET v == parse_invocation(invocation_data, offset)
       IN  /\ inv' = v
           /\ IF seL4_MessageInfo_get_capsUnwrapped(v.tag) # 0
              THEN /\ out' = out \o fail_out("kernel invocation should never have unwrapped caps")
                   /\ pc' = fail_pc("call")
              ELSE /\ out' = out
                   /\ pc' = "call"
    /\ UNCHANGED <<untyped_info, bi, bootstrap_invocation_count, bootstrap_invocation_data,
                   system_invocation_count, system_invocation_data, records, buf, offset, idx,
                   ipc_caps, ipc_msg, calls, build, lib, pd_names, pd_tcbs, scheduling_contexts,
                   notification_caps, pd_stack_addrs, msg, ops>>

\* the two indices printed the other way round
invocation_error_out_swapped(result, k, i) ==
    <<Str("ERROR: "), Hex64(W(result)), Str(" "), Str(sel4_strerror(result)),
      Str("  invocation idx: "), Hex32(W(i)), Str("."), Hex32(W(k)), Str("\n")>>

\* the diagnostic of a failed call: the result, its name, and idx.i
invocation_error_out(result, k, i) ==
    <<Str("ERROR: "), Hex64(W(result)), Str(" "), Str(sel4_strerror(result)),
      Str("  invocation idx: "), Hex32(W(k)), Str("."), Hex32(W(i)), Str("\n")>>

\* one iteration of the loop: the slots are loaded, the call is issued, its result checked
perform_invocation_call(results) ==
    /\ pc = "call"
    /\ Lt64(W(inv.i), inv.iterations)
    /\ LET d == invocation_data
           call_service == iter_value(inv.service, inv.service_incr, inv.i)
           caps == caps_after(d, inv)
           msgs == msg_after(d, inv)
           regs == regs_after(d, inv)
       IN  \E result \in results :
            /\ ipc_caps' = caps
            /\ ipc_msg' = msgs
            /\ calls' = Append(calls, call_of(call_service, inv.tag, caps, regs, msgs, result))
            /\ IF call_failed(result)
               THEN /\ out' = out \o invocation_error_out(result, idx, inv.i)
                                  \o fail_out("invocation error")
                    /\ pc' = fail_pc("call")
                    /\ inv' = [inv EXCEPT !.mr = <<Junk, Junk, Junk, Junk>>]
               ELSE /\ out' = out
                    /\ pc' = "call"
                    /\ inv' = [inv EXCEPT !.mr = <<Junk, Junk, Junk, Junk>>, !.i = next_i(inv.i)]
    /\ UNCHANGED <<untyped_info, bi, bootstrap_invocation_count, bootstrap_invocation_data,
                   system_invocation_count, system_invocation_data, records, buf, offset, idx,
                   build, lib, pd_names, pd_tcbs, scheduling_contexts, notification_caps, pd_stack_addrs,
                   msg, ops>>

\* the loop is over: perform_invocation returns next_offset and main steps to the next index
perform_invocation_return ==
    /\ pc = "call"
    /\ ~Lt64(W(inv.i), inv.iterations)
    /\ offset' = inv.next_offset
    /\ idx' = idx + 1
    /\ inv' = NoInv
    /\ pc' = "loop"
    /\ UNCHANGED <<untyped_info, bi, bootstrap_invocation_count, bootstrap_invocation_data,
                   system_invocation_count, system_invocation_data, records, buf, ipc_caps,
                   ipc_msg, calls, out, build, lib, pd_names, pd_tcbs, scheduling_contexts,
                   notification_caps, pd_stack_addrs, msg, ops>>

\* the bootstrap loop is over: main turns to the system buffer
bootstrap_done ==
    /\ pc = "loop"
    /\ buf = "bootstrap"
    /\ ~loop_running
    /\ out' = out \o <<Str("MON|INFO: completed bootstrap invocations\n")>>
    /\ buf' = "system"
    /\ offset' = 0
    /\ idx' = 0
    /\ UNCHANGED <<pc, untyped_info, bi, bootstrap_invocation_count, bootstrap_invocation_data,
                   system_invocation_count, system_invocation_data, records, inv, ipc_caps,
                   ipc_msg, calls, build, lib, pd_names, pd_tcbs, scheduling_contexts, notification_caps,
                   pd_stack_addrs, msg, ops>>

\* the system loop is over: main calls monitor(), which blocks in seL4_Recv
\* (the seL4_DebugNameThread pass of a CONFIG_DEBUG_BUILD image is not part of the model)
system_done ==
    /\ pc = "loop"
    /\ buf = "system"
    /\ ~loop_running
    /\ out' = out \o <<Str("MON|INFO: completed system invocations\n")>>
    /\ pc' = "WAITING"
    /\ UNCHANGED <<untyped_info, bi, bootstrap_invocation_count, bootstrap_invocation_data,
                   system_invocation_count, system_invocation_data, records, buf, offset, idx,
                   inv, ipc_caps, ipc_msg, calls, build, lib, pd_names, pd_tcbs, scheduling_contexts,
                   notification_caps, pd_stack_addrs, msg, ops>>

-----------------------------------------------------------------------------
(* monitor *)

\* the stack base of the component cleared once its message is handled
Frozen_clears_stack_base ==
    /\ pd_stack_addrs' = [b \in DOMAIN pd_stack_addrs |-> W(0)]
    /\ UNCHANGED <<untyped_info, bi, bootstrap_invocation_count, bootstrap_invocation_data,
                   system_invocation_count, system_invocation_data, records, buf, offset, idx,
                   inv, ipc_caps, ipc_msg, calls, build, lib, pd_names, pd_tcbs, scheduling_contexts,
                   notification_caps>>

\* monitor() assigns none of the globals and nothing of main: it reads the registry
Frozen ==
    UNCHANGED <<untyped_info, bi, bootstrap_invocation_count, bootstrap_invocation_data,
                system_invocation_count, system_invocation_data, records, buf, offset, idx,
                inv, ipc_caps, ipc_msg, calls, build, lib, pd_names, pd_tcbs, scheduling_contexts,
                notification_caps, pd_stack_addrs>>

\* the message words of the running example: a load page fault at 0xf800, a guard
\* mismatch, and no words for the other labels
MainWords(label, badge) ==
    IF label = seL4_Fault_VMFault
    THEN {MsgWords(<<W(8192), W(63488), W(0), W(13)>>)}
    ELSE IF label = seL4_Fault_CapFault
    THEN {MsgWords(<<W(8192), W(7), W(0), W(seL4_GuardMismatch), W(3), W(5), W(2)>>)}
    ELSE {MsgWords(<<>>)}

\* largest cause and UBSAN code drawn one by one (each table ends below it)
MaxCause == 24
MaxUbsanCode == 26

\* fault status words of a RISC-V kernel: every small cause, CHERI causes and types, and
\* words past 32 bits
RiscvFsrs ==
    {W(k) : k \in 0..MaxCause}
    \cup {W(2048 + t * 16 + c) : t \in {0, 1, 2, 3, 15}, c \in {0, 1, 2, 3, 4, 5, 15}}
    \cup {<<13, 0, 1, 0>>, <<4096 + 13, 0, 0, 0>>, <<2, 0, 0, 32768>>,
          <<4096 + 2048 + 1024 + 256 + 16 + 2, 7, 0, 1>>, Neg(1)}

\* fault status words of an AArch64 kernel: every exception class, every data abort
\* status with its flag bits clear and set, one status with each flag bit alone, other
\* classes with status and flag bits set, and words past 32 bits
Aarch64Fsrs ==
    {<<0, ec * 1024, 0, 0>> : ec \in 0..63}
    \cup {<<7, 36 * 1024 + 512, 0, 0>>, <<7, 512, 0, 0>>}
    \cup {<<d + f * 64, 36 * 1024, 0, 0>> : d \in 0..63, f \in {0, 15}}
    \cup {<<7 + f * 64, 36 * 1024, 0, 0>> : f \in {1, 2, 4, 8}}
    \cup {<<64 + 7, 37 * 1024, 0, 0>>, <<960 + 7, 32 * 1024, 0, 0>>,
          <<7, 33 * 1024 + 512 + 5, 0, 0>>}
    \cup {<<0, 36 * 1024, 1, 0>>, Neg(1)}

\* fault addresses around the stack bases, and the last addresses of the address space
FaultAddrs ==
    {W(0), W(1024), W(2047), W(2048), W(4095), W(4096), W(61439), W(61440), W(65535),
     W(65536), Neg(2048), Neg(1)}

\* syndrome words of a vCPU fault: UBSAN brk immediates, other brk comments, other classes
Esrs ==
    {<<UBSAN_ARM64_BRK_IMM + c, ARM64_BRK_EC * 1024, 0, 0>> : c \in (0..MaxUbsanCode) \cup {255}}
    \cup {<<21505, ARM64_BRK_EC * 1024, 0, 0>>, <<UBSAN_ARM64_BRK_IMM, 0, 0, 0>>,
          <<UBSAN_ARM64_BRK_IMM, ARM64_BRK_EC * 1024, 1, 0>>,
          <<UBSAN_ARM64_BRK_IMM + 1, ARM64_BRK_EC * 1024 + 1, 0, 0>>}

\* the message words the kernel of the build may deliver with a label: the status words
\* with a fault of component 1, the fault addresses with a fault of either component
WideWords(label, badge) ==
    IF label = seL4_Fault_VMFault
    THEN {MsgWords(<<W(8192), a, W(0), W(13)>>) : a \in FaultAddrs}
         \cup {MsgWords(<<W(8192), W(63488), W(1), W(13)>>)}
         \cup (IF badge # 1 THEN {}
               ELSE {MsgWords(<<W(8192), W(63488), W(0), fsr>>) :
                        fsr \in (IF build.arch = "riscv64" THEN RiscvFsrs ELSE Aarch64Fsrs)})
    ELSE IF label = seL4_Fault_CapFault
    THEN {MsgWords(<<W(8192), W(7), W(r), W(t), W(3), W(5), W(2)>>) :
            r \in {0, 1}, t \in 0..(seL4_GuardMismatch + 1)}
    ELSE IF label = seL4_Fault_VCPUFault /\ build.hyp
    THEN {MsgWords(<<esr>>) : esr \in Esrs}
    ELSE {MsgWords(<<>>)}

\* the message with the registry reads of a branch of the monitor loop added, each an
\* array and the index it is read at: after the receive, in the passive branch (err the
\* result of the bind), at the badge test that fails, and in the fault path (err the
\* result of the register read)
after_reads(m, branch, err) ==
    LET at(array) == [array |-> array, index |-> m.badge]
    IN  [m EXCEPT !.reads = @ \o
            CASE branch = "recv" -> <<at("pd_tcbs")>>
              [] branch = "passive" ->
                    <<at("scheduling_contexts"), at("scheduling_contexts"),
                      at("notification_caps")>>
                    \o (IF err # seL4_NoError THEN <<>> ELSE <<at("pd_names")>>)
              [] branch = "invalid" ->
                    IF m.badge < MAX_PDS THEN <<at("pd_names")>> ELSE <<>>
              [] branch = "fault" ->
                    <<at("pd_names"), at("pd_names")>>
                    \o (IF err = seL4_NoError /\ m.label = seL4_Fault_VMFault
                        THEN <<at("pd_stack_addrs")>> ELSE <<>>)]

\* seL4_Recv returns: the label, badge and message words of the message (of the running
\* example, or when wide of all the kernel of the build may deliver), and
\* tcb_cap = pd_tcbs[badge] (read before the badge is compared with MAX_PDS)
monitor_recv(labels, wide) ==
    /\ pc = "WAITING"
    /\ \E label \in labels, badge \in Badges :
        \E tcb_cap \in (IF badge < MAX_PDS THEN {pd_tcbs[badge]} ELSE OutOfBoundsWords),
           mr \in (IF wide THEN WideWords(label, badge) ELSE MainWords(label, badge)) :
            msg' = after_reads([label |-> label, badge |-> badge, tcb_cap |-> tcb_cap,
                                mr |-> mr, reads |-> <<>>], "recv", seL4_NoError)
    /\ pc' = "DISPATCHING"
    /\ out' = <<>>
    /\ ops' = <<>>
    /\ Frozen

\* the passive branch taken on the wrong label
is_passive_request_wrong_label(m) == m.label = seL4_Fault_CapFault /\ m.badge < MAX_PDS

\* the branch taken for a request to become passive
is_passive_request(m) == m.label = seL4_Fault_NullFault /\ m.badge < MAX_PDS

\* the test the fault path makes before it names the faulting PD
badge_is_known(m) == m.badge < MAX_PDS /\ pd_names[m.badge] # ""

\* the text printed after the bind call
passive_out(m, err) ==
    IF err # seL4_NoError
    THEN <<Str("MON|ERROR: could not bind scheduling context to notification object")>>
    ELSE <<Str("MON|INFO: PD '"), Str(pd_names[m.badge]), Str("' is now passive!\n")>>

\* the bind issued before the unbind
passive_ops_bind_first(m, err1, err2, at) ==
    <<KernelOp("seL4_SchedContext_Bind",
               scheduling_contexts[m.badge], notification_caps[m.badge], err2, at),
      KernelOp("seL4_SchedContext_UnbindObject",
               scheduling_contexts[m.badge], m.tcb_cap, err1, at)>>

\* the two kernel calls of the passive branch: the scheduling context of the badge is
\* unbound from tcb_cap, then bound to the notification of the badge
passive_ops(m, err1, err2, at) ==
    <<KernelOp("seL4_SchedContext_UnbindObject",
               scheduling_contexts[m.badge], m.tcb_cap, err1, at),
      KernelOp("seL4_SchedContext_Bind",
               scheduling_contexts[m.badge], notification_caps[m.badge], err2, at)>>

\* the passive branch logging the result of the unbind
monitor_passive_logs_unbind ==
    /\ pc = "DISPATCHING"
    /\ is_passive_request(msg)
    /\ \E err1 \in Results, err2 \in Results :
        /\ ops' = passive_ops(msg, err1, err2, Len(out))
        /\ out' = out \o passive_out(msg, err1)
        /\ msg' = after_reads(msg, "passive", err1)
    /\ pc' = "WAITING"
    /\ Frozen

\* a request to become passive: unbind the scheduling context, bind it to the notification
monitor_passive ==
    /\ pc = "DISPATCHING"
    /\ is_passive_request(msg)
    /\ \E err1 \in Results, err2 \in Results :
        /\ ops' = passive_ops(msg, err1, err2, Len(out))
        /\ out' = out \o passive_out(msg, err2)
        /\ msg' = after_reads(msg, "passive", err2)
    /\ pc' = "WAITING"
    /\ Frozen

received_out(m) ==
    <<Str("MON|ERROR: received message "), Hex32(W(m.label)), Str("  badge: "),
      Hex64(W(m.badge)), Str("  tcb cap: "), Hex64(m.tcb_cap), Str("\n")>>

faulting_pd_out(m) ==
    <<Str("MON|ERROR: faulting PD: "), Str(pd_names[m.badge]), Str("\n")>>

\* the kernel calls of print_tcb_registers: a CHERI RISC-V build reads ddc (35) and the
\* capability registers 0..31 one by one
print_tcb_registers_ops(b, tcb_cap, at) ==
    IF b.arch = "riscv64" /\ b.cheri
    THEN [k \in 1..33 |->
            KernelOp("seL4_TCB_CheriReadRegister", tcb_cap, W(IF k = 1 THEN 35 ELSE k - 2),
                     seL4_NoError, at)]
    ELSE <<>>

\* print_tcb_registers: the heading (the register lines, which print what the kernel
\* returned, are left out)
print_tcb_registers_out == <<Str("Registers: \n")>>

lookup_failure_out(t) ==
    CASE t = W(seL4_NoFailure) -> Str("seL4_NoFailure")
      [] t = W(seL4_InvalidRoot) -> Str("seL4_InvalidRoot")
      [] t = W(seL4_MissingCapability) -> Str("seL4_MissingCapability")
      [] t = W(seL4_DepthMismatch) -> Str("seL4_DepthMismatch")
      [] t = W(seL4_GuardMismatch) -> Str("seL4_GuardMismatch")
      [] OTHER -> Hex64(t)

cap_fault_out(m) ==
    LET ip == seL4_GetMR(m, seL4_CapFault_IP)
        fault_addr == seL4_GetMR(m, seL4_CapFault_Addr)
        in_recv_phase == seL4_GetMR(m, seL4_CapFault_InRecvPhase)
        lookup_failure_type == seL4_GetMR(m, seL4_CapFault_LookupFailureType)
        bits_left == seL4_GetMR(m, seL4_CapFault_BitsLeft)
        depth_bits_found == seL4_GetMR(m, seL4_CapFault_DepthMismatch_BitsFound)
        guard_found == seL4_GetMR(m, seL4_CapFault_GuardMismatch_GuardFound)
        guard_bits_found == seL4_GetMR(m, seL4_CapFault_GuardMismatch_BitsFound)
    IN  <<Str("MON|ERROR: CapFault: ip="), Hex64(ip), Str("  fault_addr="), Hex64(fault_addr),
          Str("  in_recv_phase="), Str(IF in_recv_phase = W(0) THEN "false" ELSE "true"),
          Str("  lookup_failure_type="), lookup_failure_out(lookup_failure_type)>>
        \o (IF lookup_failure_type \in {W(seL4_MissingCapability), W(seL4_DepthMismatch),
                                        W(seL4_GuardMismatch)}
            THEN <<Str("  bits_left="), Hex64(bits_left)>> ELSE <<>>)
        \o (IF lookup_failure_type = W(seL4_DepthMismatch)
            THEN <<Str("  depth_bits_found="), Hex64(depth_bits_found)>> ELSE <<>>)
        \o (IF lookup_failure_type = W(seL4_GuardMismatch)
            THEN <<Str("  guard_found="), Hex64(guard_found),
                   Str("  guard_bits_found="), Hex64(guard_bits_found)>> ELSE <<>>)
        \o <<Str("\n")>>

vm_fault_head(title, m) ==
    <<Str(title), Hex64(seL4_GetMR(m, seL4_VMFault_IP)),
      Str("  fault_addr="), Hex64(seL4_GetMR(m, seL4_VMFault_Addr)),
      Str("  fsr="), Hex64(seL4_GetMR(m, seL4_VMFault_FSR)), Str("  "),
      Str(IF seL4_GetMR(m, seL4_VMFault_PrefetchFault) # W(0)
          THEN "(instruction fault)" ELSE "(data fault)"),
      Str("\n")>>

riscv_print_vm_fault(b, m) ==
    LET fsr == seL4_GetMR(m, seL4_VMFault_FSR)
        violation == b.cheri /\ bit(fsr, 11) = 1
    IN  vm_fault_head(IF violation THEN "MON|ERROR: CHERI Security Violation: ip="
                      ELSE "MON|ERROR: VMFault: ip=", m)
        \o <<Str("MON|ERROR: description of fault: "), Str(riscv_fsr_to_string(b, fsr)),
             Str("\n")>>
        \o (IF violation
            THEN <<Str("MON|ERROR: CHERI fault type: "),
                   Str(riscv_fsr_cheri_type_to_string((fsr[1] \div 16) % 16))>>
            ELSE <<>>)
        \o <<Str("\n")>>

\* the sub-code decoded for a data abort of either exception level (0x24 and 0x25)
aarch64_print_vm_fault_both_aborts(m) ==
    LET fsr == seL4_GetMR(m, seL4_VMFault_FSR)
        ec == Shr26(fsr)
        il == bit(fsr, 25)
        iss == <<fsr[1], fsr[2] % 512, 0, 0>>
        dfsc == iss[1] % 64
    IN  vm_fault_head("MON|ERROR: VMFault: ip=", m)
        \o <<Str("MON|ERROR:   ec: "), Hex32(ec), Str("  "), Str(ec_to_string(ec)),
             Str("   il: "), Str(IF il # 0 THEN "1" ELSE "0"), Str("   iss: "), Hex32(iss),
             Str("\n")>>
        \o (IF ec \in {W(36), W(37)}
            THEN <<Str("MON|ERROR:   dfsc = "), Str(data_abort_dfsc_to_string(dfsc)),
                   Str(" ("), Hex32(W(dfsc)), Str(")")>>
                 \o (IF bit(iss, 9) = 1 THEN <<Str(" -- external abort")>> ELSE <<>>)
                 \o (IF bit(iss, 8) = 1 THEN <<Str(" -- cache maint")>> ELSE <<>>)
                 \o (IF bit(iss, 7) = 1
                     THEN <<Str(" -- stage 2 fault for stage 1 page table walk")>> ELSE <<>>)
                 \o (IF bit(iss, 6) = 1 THEN <<Str(" -- write not read")>> ELSE <<>>)
                 \o <<Str("\n")>>
            ELSE <<>>)

\* aarch64_print_vm_fault: the fields of the syndrome, and for class 0x24 the sub-code
aarch64_print_vm_fault(m) ==
    LET fsr == seL4_GetMR(m, seL4_VMFault_FSR)
        ec == Shr26(fsr)
        il == bit(fsr, 25)
        iss == <<fsr[1], fsr[2] % 512, 0, 0>>
        dfsc == iss[1] % 64
    IN  vm_fault_head("MON|ERROR: VMFault: ip=", m)
        \o <<Str("MON|ERROR:   ec: "), Hex32(ec), Str("  "), Str(ec_to_string(ec)),
             Str("   il: "), Str(IF il # 0 THEN "1" ELSE "0"), Str("   iss: "), Hex32(iss),
             Str("\n")>>
        \o (IF ec = W(36)
            THEN <<Str("MON|ERROR:   dfsc = "), Str(data_abort_dfsc_to_string(dfsc)),
                   Str(" ("), Hex32(W(dfsc)), Str(")")>>
                 \o (IF bit(iss, 9) = 1 THEN <<Str(" -- external abort")>> ELSE <<>>)
                 \o (IF bit(iss, 8) = 1 THEN <<Str(" -- cache maint")>> ELSE <<>>)
                 \o (IF bit(iss, 7) = 1
                     THEN <<Str(" -- stage 2 fault for stage 1 page table walk")>> ELSE <<>>)
                 \o (IF bit(iss, 6) = 1 THEN <<Str(" -- write not read")>> ELSE <<>>)
                 \o <<Str("\n")>>
            ELSE <<>>)

\* fault_addr < stack_addr && fault_addr >= stack_addr - 0x1000
potential_stack_overflow(fault_addr, stack_addr) ==
    Lt64(fault_addr, stack_addr) /\ ~Lt64(fault_addr, Sub64(stack_addr, W(4096)))

stack_overflow_out(m) ==
    IF potential_stack_overflow(seL4_GetMR(m, seL4_VMFault_Addr), pd_stack_addrs[m.badge])
    THEN <<Str("MON|ERROR: potential stack overflow, fault address within one page outside of stack region\n")>>
    ELSE <<>>

\* the brk comment left unchecked: every brk exception is taken for a UBSAN trap
vcpu_fault_out_class_only(m) ==
    LET esr == seL4_GetMR(m, seL4_VCPUFault_HSR)
        ec == Shr26(esr)
        esr_comment == esr[1] % (ESR_COMMENT_MASK + 1)
    IN  <<Str("MON|ERROR: received vCPU fault with ESR: "), Hex64(esr), Str("\n")>>
        \o (IF ec = W(ARM64_BRK_EC)
            THEN <<Str("MON|ERROR: potential undefined behaviour detected by UBSAN for: '"),
                   Str(usban_code_to_string(esr_comment % (UBSAN_ARM64_BRK_MASK + 1))),
                   Str("'\n")>>
            ELSE <<Str("MON|ERROR: Unknown vCPU fault\n")>>)

\* case seL4_Fault_VCPUFault of the switch (CONFIG_ARM_HYPERVISOR_SUPPORT)
vcpu_fault_out(m) ==
    LET esr == seL4_GetMR(m, seL4_VCPUFault_HSR)
        ec == Shr26(esr)
        esr_comment == esr[1] % (ESR_COMMENT_MASK + 1)
    IN  <<Str("MON|ERROR: received vCPU fault with ESR: "), Hex64(esr), Str("\n")>>
        \o (IF ec = W(ARM64_BRK_EC)
               /\ esr_comment - (esr_comment % (UBSAN_ARM64_BRK_MASK + 1)) = UBSAN_ARM64_BRK_IMM
            THEN <<Str("MON|ERROR: potential undefined behaviour detected by UBSAN for: '"),
                   Str(usban_code_to_string(esr_comment % (UBSAN_ARM64_BRK_MASK + 1))),
                   Str("'\n")>>
            ELSE <<Str("MON|ERROR: Unknown vCPU fault\n")>>)

\* a default case that prints nothing
unknown_fault_out_silent(m) == <<>>

\* the default case of the switch on the label
unknown_fault_out(m) == <<Str("MON|ERROR: Unknown fault\n"), Hex64(W(m.label))>>

\* the switch on the label
fault_out(b, m) ==
    CASE m.label = seL4_Fault_CapFault -> cap_fault_out(m)
      [] m.label = seL4_Fault_UserException -> <<Str("MON|ERROR: UserException\n")>>
      [] m.label = seL4_Fault_VMFault ->
            (IF b.arch = "aarch64" THEN aarch64_print_vm_fault(m)
             ELSE riscv_print_vm_fault(b, m))
            \o stack_overflow_out(m)
      [] m.label = seL4_Fault_VCPUFault /\ b.hyp -> vcpu_fault_out(m)
      [] OTHER -> unknown_fault_out(m)

\* a message that is no passive request, from a badge the registry does not know
monitor_invalid_badge ==
    /\ pc = "DISPATCHING"
    /\ ~is_passive_request(msg)
    /\ ~badge_is_known(msg)
    /\ out' = out \o received_out(msg) \o fail_out("MON|ERROR: unknown/invalid badge\n")
    /\ pc' = fail_pc("WAITING")
    /\ msg' = after_reads(msg, "invalid", seL4_NoError)
    /\ UNCHANGED ops
    /\ Frozen

\* the register read taken to have failed when it succeeded
read_failed_inverted(err) == err = seL4_NoError

\* the register read never taken to have failed
read_failed_ignored(err) == FALSE

\* err != seL4_NoError after seL4_TCB_ReadRegisters
read_failed(err) == err # seL4_NoError

\* a fault of a known component: its registers are read, then the fault is reported
\* the fault answered with a reply message once it is reported
fault_ops_with_reply(b, m, read, at) ==
    <<read>> \o print_tcb_registers_ops(b, m.tcb_cap, at)
        \o <<KernelOp("seL4_Send", W(0), W(0), seL4_NoError, at)>>

\* the kernel calls of a reported fault: the register read, and the reads of
\* print_tcb_registers; the switch on the label issues none
fault_ops(b, m, read, at) == <<read>> \o print_tcb_registers_ops(b, m.tcb_cap, at)

monitor_fault ==
    /\ pc = "DISPATCHING"
    /\ ~is_passive_request(msg)
    /\ badge_is_known(msg)
    /\ LET head == out \o received_out(msg) \o faulting_pd_out(msg)
       IN  \E err \in Results :
            LET read == KernelOp("seL4_TCB_ReadRegisters", msg.tcb_cap, W(0), err, Len(head))
            IN  /\ IF read_failed(err)
                   THEN /\ ops' = <<read>>
                        /\ out' = head \o fail_out("error reading registers")
                        /\ pc' = fail_pc("WAITING")
                   ELSE /\ ops' = fault_ops(build, msg, read,
                                              Len(head) + Len(print_tcb_registers_out))
                        /\ out' = head \o print_tcb_registers_out \o fault_out(build, msg)
                        /\ pc' = "WAITING"
                /\ msg' = after_reads(msg, "fault", err)
    /\ Frozen

\* region values of the manifests that are dumped: adjoining regions, a device region, a
\* larger region and a region after it
DumpRegionValues ==
    {Region(W(4096), 12, 0), Region(W(8192), 12, 0), Region(W(8192), 12, 1),
     Region(W(8192), 13, 0), Region(W(16384), 12, 0)}

\* most regions of a manifest that is dumped
MaxDumpRegions == 4

\* manifests the build tool may embed, with cap range [10, 10 + n)
DumpManifests ==
    {[cap_start |-> W(10), cap_end |-> W(10 + n), regions |-> r] :
        n \in 0..MaxDumpRegions, r \in [1..MaxDumpRegions -> DumpRegionValues]}

\* a kernel whose slot range starts one slot early: the check fails at once
DumpBootInfo ==
    [start |-> W(9), end |-> W(10),
     untypedList |-> [k \in 1..MaxRegions |-> Region(W(4096), 12, 0)]]

-----------------------------------------------------------------------------
(* Specifications *)

Next ==
    \/ main_check
    \/ perform_invocation_enter
    \/ perform_invocation_call(Results)
    \/ perform_invocation_return
    \/ bootstrap_done
    \/ system_done
    \/ monitor_recv(Labels, FALSE)
    \/ monitor_passive
    \/ monitor_invalid_badge
    \/ monitor_fault

Spec == Init /\ [][Next]_vars

\* the manifest checker on every pair of manifests
InitManifest ==
    /\ untyped_info \in EmbeddedManifests
    /\ bi \in BootInfos
    /\ InitScripts(<<>>, <<>>)
    /\ build = MainBuild
    /\ pd_stack_addrs = RegistryStacks(W(65536), W(65536))
    /\ InitRest

NextManifest == main_check

SpecManifest == InitManifest /\ [][NextManifest]_vars

\* the dump of every manifest of DumpManifests
InitDump ==
    /\ untyped_info \in DumpManifests
    /\ bi = DumpBootInfo
    /\ InitScripts(<<>>, <<>>)
    /\ build = MainBuild
    /\ pd_stack_addrs = RegistryStacks(W(65536), W(65536))
    /\ InitRest

NextDump == main_check

SpecDump == InitDump /\ [][NextDump]_vars

\* slot ranges the build tool may embed and the kernel report alike: empty, of one and two
\* slots, of exactly MAX_UNTYPED_REGIONS slots and of one more, and with the end below the
\* start
SlotRanges ==
    {<<W(10), W(10)>>, <<W(10), W(11)>>, <<W(10), W(12)>>,
     <<W(10), W(10 + MAX_UNTYPED_REGIONS)>>, <<W(10), W(11 + MAX_UNTYPED_REGIONS)>>,
     <<W(12), W(10)>>, <<W(1), W(0)>>}

\* the check of manifests that agree on the slot range, with every list of embedded and
\* reported regions (the entries past the populated ones are zero in both arrays)
InitRange ==
    /\ \E sr \in SlotRanges :
        \E er \in [1..MaxRegions -> EmbeddedRegionValues],
           kr \in [1..MaxRegions -> EmbeddedRegionValues] :
            /\ untyped_info = [cap_start |-> sr[1], cap_end |-> sr[2], regions |-> er]
            /\ bi = [start |-> sr[1], end |-> sr[2], untypedList |-> kr]
    /\ InitScripts(<<>>, <<>>)
    /\ build = MainBuild
    /\ pd_stack_addrs = RegistryStacks(W(65536), W(65536))
    /\ InitRest

SpecRange == InitRange /\ [][NextManifest]_vars

\* largest small value printed digit by digit
MaxHexSmall == 16

\* values handed to puthex32 and puthex64: the small ones, one with every digit, values
\* that differ only above bit 32, and the largest
HexWords ==
    {W(k) : k \in 0..MaxHexSmall}
    \cup {<<52719, 35243, 17767, 291>>, <<52719, 35243, 0, 0>>, <<43981, 4660, 0, 0>>,
          <<0, 0, 1, 0>>, <<0, 32768, 0, 0>>, <<0, 0, 0, 32768>>, Neg(1)}

\* puthex32 of two values
puthex32_print ==
    /\ pc = "puthex32"
    /\ out' = out \o [k \in 1..2 |->
                        [Hex32(seL4_GetMR(msg, k - 1)) EXCEPT
                            !.chars = puthex32(seL4_GetMR(msg, k - 1))]]
    /\ pc' = "puthex64"
    /\ UNCHANGED <<msg, ops>>
    /\ Frozen

\* puthex64 of the same two values
puthex64_print ==
    /\ pc = "puthex64"
    /\ out' = out \o [k \in 1..2 |->
                        [Hex64(seL4_GetMR(msg, k - 1)) EXCEPT
                            !.chars = puthex64(seL4_GetMR(msg, k - 1))]]
    /\ pc' = "printed"
    /\ UNCHANGED <<msg, ops>>
    /\ Frozen

\* the two printing routines on every pair of values of HexWords (held in msg.mr)
InitHex ==
    /\ untyped_info = MainManifest
    /\ bi \in {b \in MainBootInfos : b.untypedList[1].size_bits = 12}
    /\ InitScripts(<<>>, <<>>)
    /\ build = MainBuild
    /\ pd_stack_addrs = RegistryStacks(W(65536), W(65536))
    /\ pc = "puthex32"
    /\ buf = "bootstrap"
    /\ offset = 0
    /\ idx = 0
    /\ inv = NoInv
    /\ ipc_caps = << >>
    /\ ipc_msg = << >>
    /\ calls = <<>>
    /\ out = <<>>
    /\ pd_names = RegistryNames
    /\ pd_tcbs = RegistryWords(100)
    /\ scheduling_contexts = RegistryWords(200)
    /\ notification_caps = RegistryWords(300)
    /\ \E a \in HexWords, b \in HexWords : msg = [NoMsg EXCEPT !.mr = MsgWords(<<a, b>>)]
    /\ ops = <<>>
    /\ lib = NoLib

NextHex == puthex32_print \/ puthex64_print

SpecHex == InitHex /\ [][NextHex]_vars

\* a call of libmicrokit leaves the monitor's state alone
LibFrame ==
    UNCHANGED <<pc, untyped_info, bi, bootstrap_invocation_count, bootstrap_invocation_data,
                system_invocation_count, system_invocation_data, records, buf, offset, idx,
                inv, ipc_caps, ipc_msg, calls, out, build, pd_names, pd_tcbs,
                scheduling_contexts, notification_caps, pd_stack_addrs, msg, ops>>

microkit_notify ==
    /\ pc = "pd"
    /\ \E ch \in Channels :
        lib' = IF channel_is_invalid(ch, lib.microkit_notifications)
               THEN invalid_channel("microkit_notify", ch)
               ELSE [lib_call("microkit_notify", ch) EXCEPT
                        !.ops = <<[op |-> "seL4_Signal", cap |-> BASE_OUTPUT_NOTIFICATION_CAP + ch]>>]
    /\ LibFrame

microkit_irq_ack ==
    /\ pc = "pd"
    /\ \E ch \in Channels :
        lib' = IF channel_is_invalid(ch, lib.microkit_irqs)
               THEN invalid_channel("microkit_irq_ack", ch)
               ELSE [lib_call("microkit_irq_ack", ch) EXCEPT
                        !.ops = <<[op |-> "seL4_IRQHandler_Ack", cap |-> BASE_IRQ_CAP + ch]>>]
    /\ LibFrame

\* the reply of the callee is any message info
microkit_ppcall ==
    /\ pc = "pd"
    /\ \E ch \in Channels, reply \in {W(0), MkTag(1, 0, 0, 2)} :
        lib' = IF channel_is_invalid(ch, lib.microkit_pps)
               THEN [invalid_channel("microkit_ppcall", ch) EXCEPT !.ret = MkTag(0, 0, 0, 0)]
               ELSE [lib_call("microkit_ppcall", ch) EXCEPT
                        !.ops = <<[op |-> "seL4_Call", cap |-> BASE_ENDPOINT_CAP + ch]>>,
                        !.ret = reply]
    /\ LibFrame

microkit_deferred_notify ==
    /\ pc = "pd"
    /\ \E ch \in Channels :
        lib' = IF channel_is_invalid(ch, lib.microkit_notifications)
               THEN invalid_channel("microkit_deferred_notify", ch)
               ELSE deferred("microkit_deferred_notify", ch, BASE_OUTPUT_NOTIFICATION_CAP + ch, 0)
    /\ LibFrame

microkit_deferred_irq_ack ==
    /\ pc = "pd"
    /\ \E ch \in Channels :
        lib' = IF channel_is_invalid(ch, lib.microkit_irqs)
               THEN invalid_channel("microkit_deferred_irq_ack", ch)
               ELSE deferred("microkit_deferred_irq_ack", ch, BASE_IRQ_CAP + ch, IRQAckIRQ)
    /\ LibFrame

\* a protection domain with the masks of Libs, making any calls in any order
InitLib ==
    /\ untyped_info = MainManifest
    /\ bi \in {b \in MainBootInfos : b.untypedList[1].size_bits = 12}
    /\ InitScripts(<<>>, <<>>)
    /\ build = MainBuild
    /\ pd_stack_addrs = RegistryStacks(W(65536), W(65536))
    /\ pc = "pd"
    /\ buf = "bootstrap"
    /\ offset = 0
    /\ idx = 0
    /\ inv = NoInv
    /\ ipc_caps = << >>
    /\ ipc_msg = << >>
    /\ calls = <<>>
    /\ out = <<>>
    /\ pd_names = RegistryNames
    /\ pd_tcbs = RegistryWords(100)
    /\ scheduling_contexts = RegistryWords(200)
    /\ notification_caps = RegistryWords(300)
    /\ msg = NoMsg
    /\ ops = <<>>
    /\ lib \in Libs

NextLib ==
    \/ microkit_notify
    \/ microkit_irq_ack
    \/ microkit_ppcall
    \/ microkit_deferred_notify
    \/ microkit_deferred_irq_ack

SpecLib == InitLib /\ [][NextLib]_vars

\* most calls of the iteration loop that are followed from one point of the loop
MaxLoopCalls == 3

\* a * i on seL4_Word for a 32-bit counter i held as a word, from bit k of i on (wraps at
\* 2^64)
RECURSIVE Mul64Wide(_, _, _)
Mul64Wide(a, i, k) ==
    IF k = 32 THEN W(0)
    ELSE Add64(IF bit(i, k) = 1 THEN a ELSE W(0), Mul64Wide(Add64(a, a), i, k + 1))

\* one iteration of the loop with the counter "unsigned i" at its width of 32 bits (inv.i
\* is a word whose high half is 0), for a record without capabilities and message words
\* whose call succeeds: i < iterations is compared on seL4_Word, i++ wraps at 2^32
perform_invocation_call_wide ==
    /\ pc = "call"
    /\ Lt64(inv.i, inv.iterations)
    /\ Len(calls) < MaxLoopCalls
    /\ LET d == invocation_data
           call_service ==
               IF inv.i # W(0)
               THEN Add64(inv.service, Mul64Wide(inv.service_incr, inv.i, 0))
               ELSE inv.service
           caps == caps_after(d, inv)
           msgs == msg_after(d, inv)
           regs == regs_after(d, inv)
       IN  /\ ipc_caps' = caps
           /\ ipc_msg' = msgs
           /\ calls' = Append(calls, call_of(call_service, inv.tag, caps, regs, msgs,
                                             seL4_NoError))
           /\ inv' = [inv EXCEPT !.mr = <<Junk, Junk, Junk, Junk>>,
                                 !.i = Low32(Add64(inv.i, W(1)))]
    /\ UNCHANGED <<pc, untyped_info, bi, bootstrap_invocation_count,
                   bootstrap_invocation_data, system_invocation_count,
                   system_invocation_data, records, buf, offset, idx, out, build, lib,
                   pd_names, pd_tcbs, scheduling_contexts, notification_caps,
                   pd_stack_addrs, msg, ops>>

\* the loop is left with the counter at its width of 32 bits
perform_invocation_return_wide ==
    /\ pc = "call"
    /\ ~Lt64(inv.i, inv.iterations)
    /\ offset' = inv.next_offset
    /\ idx' = idx + 1
    /\ inv' = NoInv
    /\ pc' = "loop"
    /\ UNCHANGED <<untyped_info, bi, bootstrap_invocation_count, bootstrap_invocation_data,
                   system_invocation_count, system_invocation_data, records, buf, ipc_caps,
                   ipc_msg, calls, out, build, lib, pd_names, pd_tcbs, scheduling_contexts,
                   notification_caps, pd_stack_addrs, msg, ops>>

\* the iteration loop of one bootstrap record <<header, target, target stride>> whose
\* header holds hi in its high 32 bits, entered at a point it passes through when every
\* call succeeds: with the counter at 0, or at most MaxLoopCalls + 1 below the iteration
\* count
InitLoop ==
    /\ untyped_info = MainManifest
    /\ bi \in {b \in MainBootInfos : b.untypedList[1].size_bits = 12}
    /\ \E hi \in {W(0), W(1), W(2), W(3), W(65535), W(65536), <<65535, 32767, 0, 0>>,
                   <<65534, 65535, 0, 0>>, <<65535, 65535, 0, 0>>},
          service \in {W(100), Neg(1)},
          service_incr \in {W(0), W(1), <<0, 0, 1, 0>>} :
        LET rec == <<<<0, 0, hi[1], hi[2]>>, service, service_incr>>
            v == parse_invocation(rec, 0)
        IN  /\ InitScripts(<<rec>>, <<>>)
            /\ \E k \in 0..(MaxLoopCalls + 1) :
                /\ ~Lt64(v.iterations, W(k))
                /\ inv \in {[v EXCEPT !.i = W(0)],
                             [v EXCEPT !.i = Sub64(v.iterations, W(k))]}
    /\ Lt64(inv.i, <<0, 0, 1, 0>>)
    /\ build = MainBuild
    /\ pd_stack_addrs = RegistryStacks(W(65536), W(65536))
    /\ pc = "call"
    /\ buf = "bootstrap"
    /\ offset = 0
    /\ idx = 0
    /\ ipc_caps = << >>
    /\ ipc_msg = << >>
    /\ calls = <<>>
    /\ out = <<>>
    /\ pd_names = RegistryNames
    /\ pd_tcbs = RegistryWords(100)
    /\ scheduling_contexts = RegistryWords(200)
    /\ notification_caps = RegistryWords(300)
    /\ msg = NoMsg
    /\ ops = <<>>
    /\ lib = NoLib

NextLoop == perform_invocation_call_wide \/ perform_invocation_return_wide

SpecLoop == InitLoop /\ [][NextLoop]_vars

\* the program of every build, with one bootstrap record, on every result label a kernel
\* call may answer with and every fault message of WideLabels and WideWords
InitWide ==
    /\ untyped_info = MainManifest
    /\ bi \in MainBootInfos
    /\ InitScripts(<<RecSingle>>, <<>>)
    /\ build \in Builds
    /\ pd_stack_addrs \in StackRegistries
    /\ InitRest

NextWide ==
    \/ main_check
    \/ perform_invocation_enter
    \/ perform_invocation_call(WideResults)
    \/ perform_invocation_return
    \/ bootstrap_done
    \/ system_done
    \/ monitor_recv(WideLabels, TRUE)
    \/ monitor_passive
    \/ monitor_invalid_badge
    \/ monitor_fault

SpecWide == InitWide /\ [][NextWide]_vars

\* every step but the blocking receive is a step of the single thread, which runs on: a
\* kernel call always returns, and only seL4_Recv waits for the environment
Running ==
    \/ main_check
    \/ perform_invocation_enter
    \/ perform_invocation_call(Results)
    \/ perform_invocation_return
    \/ bootstrap_done
    \/ system_done
    \/ monitor_passive
    \/ monitor_invalid_badge
    \/ monitor_fault

\* labels of the messages of the fair specification: a passive request and a fault
FairLabels == {seL4_Fault_NullFault, seL4_Fault_VMFault}

NextFair ==
    \/ main_check
    \/ perform_invocation_enter
    \/ perform_invocation_call(Results)
    \/ perform_invocation_return
    \/ bootstrap_done
    \/ system_done
    \/ monitor_recv(FairLabels, FALSE)
    \/ monitor_passive
    \/ monitor_invalid_badge
    \/ monitor_fault

\* the program on the scripts of at most MaxFairRecords records
InitFair ==
    /\ untyped_info = MainManifest
    /\ bi \in MainBootInfos
    /\ \E n \in 0..MaxFairRecords, m \in 0..MaxFairRecords :
        /\ n + m <= MaxFairRecords
        /\ \E boot \in Scripts(n), sys \in Scripts(m) : InitScripts(boot, sys)
    /\ build = MainBuild
    /\ pd_stack_addrs = RegistryStacks(W(65536), W(65536))
    /\ InitRest

\* the program under the fairness of its thread
SpecFair == InitFair /\ [][NextFair]_vars /\ WF_vars(Running)

-----------------------------------------------------------------------------
(* Properties *)

\* the offset at which record k (from 0) of buffer b starts: the lengths laid out before it
RecordStart(b, k) == Len(Flatten(SubSeq(records[b], 1, k)))

\* the high 32 bits of a record's header word, as a number
HeaderHi(rec) == rec[1][3] + rec[1][4] * Limb

\* the capsUnwrapped bits (9..11) of a record's header word
HeaderUnwrapped(rec) == (rec[1][1] \div 512) % 8

\* positions of the calls of record k of buffer b in the log
CallsOf(b, k) == {n \in 1..Len(calls) : calls[n].buf = b /\ calls[n].idx = k}

\* the manifests differ in a slot bound or in a field of a region inside the slot range
ManifestMismatch(ui, b) ==
    \/ ui.cap_start # b.start
    \/ ui.cap_end # b["end"]
    \/ \E k \in 1..(ui.cap_end[1] - ui.cap_start[1]) :
        \/ ui.regions[k].paddr # b.untypedList[k].paddr
        \/ ui.regions[k].size_bits # b.untypedList[k].size_bits
        \/ ui.regions[k].is_device # b.untypedList[k].is_device

\* C1: a call that returned a non-success result is the last call ever issued, the monitor
\* is halted from then on, and the fault monitor loop has never received a message.
C1_FailedCallHalts ==
    \A n \in 1..Len(calls) :
        calls[n].result # seL4_NoError =>
            /\ n = Len(calls)
            /\ pc = "HALTED"
            /\ msg = NoMsg
            /\ ops = <<>>

\* C1 witness: the second of three iterations of the first bootstrap record failed, with a
\* further bootstrap record and a system record still to run.
C1_Witness ==
    /\ pc = "HALTED"
    /\ Len(calls) = 2
    /\ calls[2].buf = "bootstrap" /\ calls[2].idx = 0 /\ calls[2].i = 1
    /\ calls[2].result # seL4_NoError
    /\ Len(records.bootstrap) = 2
    /\ Len(records.system) = 1

\* C2: with every call successful the runner walks the records of each buffer one after the
\* other: the record with index idx starts at the sum of the lengths of the records before
\* it, the offset returned for it is the start of the next one, and when the monitor loop
\* is reached every record of both buffers has been executed and the offset is the length
\* of the system stream.
C2_OffsetsFollowRecords ==
    /\ pc \in {"loop", "call"} =>
        /\ idx <= Len(records[buf])
        /\ offset = RecordStart(buf, idx)
    /\ pc = "call" =>
        /\ idx < Len(records[buf])
        /\ inv.next_offset = RecordStart(buf, idx + 1)
    /\ (buf = "system" /\ pc # "HALTED") =>
        \A k \in 0..(Len(records.bootstrap) - 1) : CallsOf("bootstrap", k) # {}
    /\ pc \in {"WAITING", "DISPATCHING"} =>
        /\ idx = Len(records.system)
        /\ offset = Len(system_invocation_data)
        /\ {<<calls[n].buf, calls[n].idx>> : n \in 1..Len(calls)}
             = {<<"bootstrap", k>> : k \in 0..(Len(records.bootstrap) - 1)}
               \cup {<<"system", k>> : k \in 0..(Len(records.system) - 1)}

\* C2 witness: the monitor loop is reached after a two-record bootstrap script that holds a
\* multi-iteration record and a one-record system script.
C2_Witness ==
    /\ pc = "WAITING"
    /\ Len(records.bootstrap) = 2
    /\ records.bootstrap[1] = RecIter
    /\ Len(records.system) = 1
    /\ offset = Len(system_invocation_data)

\* base + stride + ... + stride (i times), on words
RECURSIVE Stepped(_, _, _)
Stepped(base, stride, i) == IF i = 0 THEN base ELSE Add64(Stepped(base, stride, i - 1), stride)

\* the value the record rec prescribes for the field at position p (from 1) in iteration
\* i; the field's stride word lies 1 + cc + mc words further on
Prescribed(rec, p, i) ==
    LET cc == seL4_MessageInfo_get_extraCaps(rec[1])
        mc == seL4_MessageInfo_get_length(rec[1])
    IN  IF i = 0 THEN rec[p] ELSE Stepped(rec[p], rec[p + 1 + cc + mc], i)

\* C3: the i-th call of a record targets service + service_stride * i, and capability j and
\* message word j carry base_j + stride_j * i (word arithmetic); for i = 0 the base values.
C3_IterationValues ==
    \A n \in 1..Len(calls) :
        LET c == calls[n]
            rec == records[c.buf][c.idx + 1]
            cc == seL4_MessageInfo_get_extraCaps(rec[1])
            mc == seL4_MessageInfo_get_length(rec[1])
        IN  /\ c.service = Prescribed(rec, 2, c.i)
            /\ Len(c.caps) = cc
            /\ Len(c.mrs) = mc
            /\ \A j \in 1..cc : c.caps[j] = Prescribed(rec, 2 + j, c.i)
            /\ \A j \in 1..mc : c.mrs[j] = Prescribed(rec, 2 + cc + j, c.i)

\* C3 witness: the third call of the five-word record: target 100 + 2 * 10, the word with
\* stride -1 stepped down twice, and the word 2^64 - 1 with stride 7 wrapped round.
C3_Witness ==
    \E n \in 1..Len(calls) :
        /\ records[calls[n].buf][calls[n].idx + 1] = RecIter
        /\ calls[n].i = 2
        /\ calls[n].service = W(120)
        /\ calls[n].caps = <<W(32)>>
        /\ calls[n].mrs = <<W(3), W(2), W(1), W(13), W(37)>>

\* C4: the checker fails exactly when the slot bounds differ or a region inside the slot
\* range differs in physical address, size class or device flag; main halts on failure and
\* goes on to the scripts on success.
C4_CheckerIffMismatch ==
    pc # "main" =>
        /\ (pc = "HALTED") = ManifestMismatch(untyped_info, bi)
        /\ (pc = "loop") = ~ManifestMismatch(untyped_info, bi)
        /\ check_untypeds_match(untyped_info, bi).ok = ~ManifestMismatch(untyped_info, bi)

\* C4 witness: both slot bounds and the first region agree, the second region differs in
\* its device flag only, and the checker failed.
C4_Witness ==
    /\ pc = "HALTED"
    /\ untyped_info.cap_start = bi.start
    /\ untyped_info.cap_end = bi["end"]
    /\ untyped_info.cap_end = W(12)
    /\ untyped_info.regions[1] = bi.untypedList[1]
    /\ untyped_info.regions[2].paddr = bi.untypedList[2].paddr
    /\ untyped_info.regions[2].size_bits = bi.untypedList[2].size_bits
    /\ untyped_info.regions[2].is_device # bi.untypedList[2].is_device

\* C5: a kernel call of either script is issued, and main is past the check without being
\* halted, only when the manifests match; on a mismatch main is halted with no call issued.
C5_CheckBeforeInvocations ==
    /\ (calls # <<>> \/ pc \notin {"main", "HALTED"}) => ~ManifestMismatch(untyped_info, bi)
    /\ calls # <<>> => pc # "main"
    /\ (ManifestMismatch(untyped_info, bi) /\ pc # "main") => (pc = "HALTED" /\ calls = <<>>)

\* C5 witness: the kernel reports size class 13 for the region, the scripts are not empty,
\* and main is halted without a call.
C5_Witness ==
    /\ pc = "HALTED"
    /\ ManifestMismatch(untyped_info, bi)
    /\ Len(records.bootstrap) > 0
    /\ calls = <<>>

\* the system script has begun: main walks the system buffer, or a system call was issued
SystemStarted == (buf = "system" /\ pc # "main") \/ \E n \in 1..Len(calls) : calls[n].buf = "system"

\* C6: once the system script has begun, every iteration of every bootstrap record has
\* been called successfully, and each of those calls lies before every system call.
C6_BootstrapBeforeSystem ==
    SystemStarted =>
        \A k \in 0..(Len(records.bootstrap) - 1) :
            \A i \in 0..HeaderHi(records.bootstrap[k + 1]) :
                \E n \in CallsOf("bootstrap", k) :
                    /\ calls[n].i = i
                    /\ calls[n].result = seL4_NoError
                    /\ \A m \in 1..Len(calls) : calls[m].buf = "system" => n < m

\* C6 witness: a system call was issued after a bootstrap script of two records.
C6_Witness ==
    /\ Len(records.bootstrap) = 2
    /\ \E n \in 1..Len(calls) : calls[n].buf = "system"

\* record k of buffer b has returned its next offset to main
RecordDone(b, k) ==
    /\ pc # "main"
    /\ k < Len(records[b])
    /\ \/ b = buf /\ k < idx
       \/ b = "bootstrap" /\ buf = "system"

C8_CallsInScriptOrder ==
    /\ \A n \in 1..Len(calls) :
        LET c == calls[n]
        IN  IF n = 1
            THEN /\ c.i = 0
                 /\ c.idx = 0
                 /\ c.buf = (IF Len(records.bootstrap) > 0 THEN "bootstrap" ELSE "system")
            ELSE LET p == calls[n - 1]
                     last == HeaderHi(records[p.buf][p.idx + 1])
                 IN  \/ c.buf = p.buf /\ c.idx = p.idx /\ c.i = p.i + 1
                     \/ c.buf = p.buf /\ c.idx = p.idx + 1 /\ c.i = 0 /\ p.i = last
                     \/ /\ p.buf = "bootstrap" /\ c.buf = "system"
                        /\ p.idx = Len(records.bootstrap) - 1 /\ p.i = last
                        /\ c.idx = 0 /\ c.i = 0
    /\ pc = "call" =>
        /\ offset = RecordStart(buf, idx)
        /\ Cardinality(CallsOf(buf, idx)) = inv.i
    /\ \A n \in 1..Len(calls) :
        records[calls[n].buf][calls[n].idx + 1] = RecIter =>
            calls[n].service = W(100 + 10 * calls[n].i)

\* C8 witness: the record with base 100 and stride 10 has returned: its calls went to 100,
\* 110, 120 in this order, and the first call of the next record follows them.
C8_Witness ==
    /\ Len(calls) = 4
    /\ records.bootstrap[1] = RecIter
    /\ [n \in 1..3 |-> calls[n].service] = <<W(100), W(110), W(120)>>
    /\ calls[4].idx = 1
    /\ calls[4].i = 0

\* C9: no call is ever issued for a record whose tag has a nonzero capsUnwrapped field,
\* nor for any record after it in script order; the executor is never inside the
\* iteration loop of such a record and the monitor loop is never reached past one.
C9_UnwrappedHaltsBeforeCall ==
    /\ \A n \in 1..Len(calls) :
        LET c == calls[n]
        IN  /\ \A k \in 0..c.idx : HeaderUnwrapped(records[c.buf][k + 1]) = 0
            /\ c.buf = "system" =>
                \A k \in 1..Len(records.bootstrap) : HeaderUnwrapped(records.bootstrap[k]) = 0
    /\ pc = "call" => HeaderUnwrapped(records[buf][idx + 1]) = 0
    /\ pc \in {"WAITING", "DISPATCHING"} =>
        \A b \in {"bootstrap", "system"} :
            \A k \in 1..Len(records[b]) : HeaderUnwrapped(records[b][k]) = 0

\* C9 witness: the second bootstrap record has capsUnwrapped set: the executor halted on
\* entering it, with the calls of the first record issued and a record left unexecuted.
C9_Witness ==
    /\ pc = "HALTED"
    /\ buf = "bootstrap"
    /\ idx = 1
    /\ records.bootstrap[2] = RecUnwrapped
    /\ calls # <<>>
    /\ CallsOf("bootstrap", 1) = {}
    /\ Len(records.system) = 1

\* a null-fault message from a badge below MAX_PDS whose name slot is not empty
PassiveRequest(m) ==
    /\ m.label = seL4_Fault_NullFault
    /\ m.badge < MAX_PDS
    /\ pd_names[m.badge] # ""

\* C10: a null-fault message with a valid badge is dispatched into exactly the unbind and
\* the bind call, no register read, and one line of log that tells whether the bind
\* succeeded; the monitor is then waiting again and is never halted on such a message.
C10_PassiveRequestReturnsToWaiting ==
    (PassiveRequest(msg) /\ pc # "DISPATCHING") =>
        /\ pc = "WAITING"
        /\ Len(ops) = 2
        /\ ops[1].op = "seL4_SchedContext_UnbindObject"
        /\ ops[2].op = "seL4_SchedContext_Bind"
        /\ out = IF ops[2].err = seL4_NoError
                 THEN <<Str("MON|INFO: PD '"), Str(pd_names[msg.badge]), Str("' is now passive!\n")>>
                 ELSE <<Str("MON|ERROR: could not bind scheduling context to notification object")>>

\* C10 witness: both calls of a passive request of component 1 failed and the monitor is
\* waiting again.
C10_Witness ==
    /\ pc = "WAITING"
    /\ PassiveRequest(msg)
    /\ msg.badge = 1
    /\ Len(ops) = 2
    /\ ops[1].err # seL4_NoError
    /\ ops[2].err # seL4_NoError

-----------------------------------------------------------------------------
(* The fault monitor loop *)

\* the monitor is past the dispatch of the message it received last
Dispatched == msg # NoMsg /\ pc # "DISPATCHING"

\* the badge is past the registry or names an empty slot
BadgeInvalid(m) == m.badge >= MAX_PDS \/ pd_names[m.badge] = ""

\* a fault of a component the registry names
TrueFault(m) == m.label # seL4_Fault_NullFault /\ ~BadgeInvalid(m)

\* positions of the register reads among the kernel operations of the dispatch
ReadOps == {n \in 1..Len(ops) : ops[n].op = "seL4_TCB_ReadRegisters"}

\* positions of the scheduling-context calls among the kernel operations of the dispatch
RebindOps ==
    {n \in 1..Len(ops) :
        ops[n].op \in {"seL4_SchedContext_UnbindObject", "seL4_SchedContext_Bind"}}

\* the first line of each fault report
ReportHeads ==
    {"MON|ERROR: CapFault: ip=", "MON|ERROR: UserException\n", "MON|ERROR: VMFault: ip=",
     "MON|ERROR: CHERI Security Violation: ip=", "MON|ERROR: received vCPU fault with ESR: ",
     "MON|ERROR: Unknown fault\n"}

\* positions in the output of the dispatch at which a fault report starts
Reports == {n \in 1..Len(out) : out[n].kind = "str" /\ out[n].text \in ReportHeads}

\* C11: a message whose badge is invalid (at or past MAX_PDS, or naming an empty slot)
\* halts the monitor, and no register read is attempted for it.
C11_InvalidBadgeHaltsWithoutRead ==
    (Dispatched /\ BadgeInvalid(msg)) => (pc = "HALTED" /\ ReadOps = {})

\* C12: whatever the label, null-fault included, a message with an invalid badge halts the
\* monitor and no scheduling-context unbind or bind is performed for that badge.
C12_InvalidBadgeNeverRebinds ==
    (Dispatched /\ BadgeInvalid(msg)) => (pc = "HALTED" /\ RebindOps = {})

\* C13 as stated: every message with a non-null label and a valid badge gets a fault report
\* and the monitor is waiting again; it is never halted on such a message.
C13_TrueFaultNeverHalts ==
    (Dispatched /\ TrueFault(msg)) => (pc = "WAITING" /\ Reports # {})

\* C13: every message with a non-null label (capability fault, user exception, VM fault,
\* vCPU fault or a label the switch does not know) and a valid badge gets exactly one fault
\* report and the monitor is waiting again when the register read succeeded; it is halted
\* on such a message only when the register read returned an error.
C13_TrueFaultReportedUnlessReadFails ==
    (Dispatched /\ TrueFault(msg)) =>
        /\ ReadOps # {}
        /\ IF \A n \in ReadOps : ops[n].err = seL4_NoError
           THEN pc = "WAITING" /\ Cardinality(Reports) = 1
           ELSE pc = "HALTED"

\* C13 witness: a message with a label the switch does not know, from component 2, has
\* been reported and the monitor is waiting again.
C13_Witness ==
    /\ pc = "WAITING"
    /\ msg.label = seL4_Fault_UnknownSyscall
    /\ msg.badge = 2
    /\ Reports # {}
    /\ out[Len(out)] = Hex64(W(seL4_Fault_UnknownSyscall))

\* C14: in the monitor loop the halt is reached only on an invalid badge or on a register
\* read that returned an error, whatever the label and the message words are.
C14_LoopHaltsOnlyOnBadBadgeOrReadError ==
    (pc = "HALTED" /\ msg # NoMsg) =>
        \/ BadgeInvalid(msg)
        \/ \E n \in ReadOps : ops[n].err # seL4_NoError

\* C14 witness: the monitor is halted on a VM fault of component 1 whose register read
\* returned an error.
C14_Witness ==
    /\ pc = "HALTED"
    /\ msg.label = seL4_Fault_VMFault
    /\ msg.badge = 1
    /\ \E n \in ReadOps : ops[n].err = seL4_IllegalOperation

-----------------------------------------------------------------------------
(* The decoders *)

\* the texts printed k entries after an entry with the text head
AfterBy(head, k) ==
    {out[n + k].text :
        n \in {i \in 1..(Len(out) - k) : out[i].kind = "str" /\ out[i].text = head}}

\* the case labels of the tables
RiscvCauses == (0..9) \cup {12, 13, 15, 18, 19}
CheriCauses == 0..4
CheriTypes == 0..2
ExceptionClasses ==
    {0, 1, 3, 4, 5, 6, 7, 12, 13, 17, 21, 24, 25, 28, 32, 33, 34, 36, 37, 38, 40, 44, 47}
    \cup (48..53) \cup {56, 60}
DfscCodes ==
    (0..7) \cup (9..11) \cup (13..17) \cup (20..24) \cup (28..31) \cup {33, 48, 49}
UbsanCodes == 0..24
ErrorCodes == 0..10

\* the register read of the dispatch succeeded
ReadSucceeded == ReadOps # {} /\ \A n \in ReadOps : ops[n].err = seL4_NoError

\* a reported VM fault of the given architecture
ReportedVMFault(arch) ==
    /\ Dispatched
    /\ TrueFault(msg)
    /\ ReadSucceeded
    /\ msg.label = seL4_Fault_VMFault
    /\ build.arch = arch

\* s is the one text of the set, it is not empty, and it is the fallback exactly when the
\* code is not a case label
Decoded(texts, fallback, mapped) ==
    /\ Cardinality(texts) = 1
    /\ \A s \in texts : s # "" /\ (s = fallback <=> ~mapped)

\* C15: every lookup of a fault decoder returns a string: the string of the case label when
\* the code is one, the fixed fallback of its table when it is not, for small codes and for
\* words past 32 bits alike; and the monitor is not halted by a lookup.
C15_DecodersTotal ==
    /\ ReportedVMFault("riscv64") =>
        LET fsr == msg.mr[4]
            violation == build.cheri /\ (fsr[1] \div 2048) % 2 = 1
        IN  /\ pc = "WAITING"
            /\ IF violation
               THEN /\ Decoded(AfterBy("MON|ERROR: description of fault: ", 1),
                               "Unexpected CHERI fault", fsr[1] % 16 \in CheriCauses)
                    /\ Decoded(AfterBy("MON|ERROR: CHERI fault type: ", 1),
                               "Unexpected CHERI fault type",
                               (fsr[1] \div 16) % 16 \in CheriTypes)
               ELSE Decoded(AfterBy("MON|ERROR: description of fault: ", 1),
                            "<Unexpected FSR>", \E k \in RiscvCauses : fsr = <<k, 0, 0, 0>>)
    /\ ReportedVMFault("aarch64") =>
        LET fsr == msg.mr[4]
            class == fsr[2] \div 1024
            low == fsr[3] = 0 /\ fsr[4] = 0
        IN  /\ pc = "WAITING"
            /\ Decoded(AfterBy("MON|ERROR:   ec: ", 3), "<invalid EC>",
                       low /\ class \in ExceptionClasses)
            /\ (low /\ class = 36) =>
                    Decoded(AfterBy("MON|ERROR:   dfsc = ", 1), "<unexpected DFSC>",
                            fsr[1] % 64 \in DfscCodes)
    /\ (Dispatched /\ TrueFault(msg) /\ ReadSucceeded /\ msg.label = seL4_Fault_VCPUFault
        /\ build.hyp) =>
        LET esr == msg.mr[1]
            ubsan == /\ esr[2] \div 1024 = 60 /\ esr[3] = 0 /\ esr[4] = 0
                     /\ esr[1] \div 256 = 85
        IN  /\ pc = "WAITING"
            /\ IF ubsan
               THEN Decoded(AfterBy("MON|ERROR: potential undefined behaviour detected by UBSAN for: '", 1),
                            "unknown reason", esr[1] % 256 \in UbsanCodes)
               ELSE AfterBy("MON|ERROR: received vCPU fault with ESR: ", 3)
                        = {"MON|ERROR: Unknown vCPU fault\n"}
    /\ (pc = "HALTED" /\ calls # <<>> /\ calls[Len(calls)].result # seL4_NoError) =>
        Decoded(AfterBy("ERROR: ", 3), "<invalid seL4 error>",
                calls[Len(calls)].result \in ErrorCodes)

\* C15 witness: on an AArch64 build a data abort with a status code that is no case label
\* has been reported with the fallback of the DFSC table, and the monitor is waiting again.
C15_Witness ==
    /\ pc = "WAITING"
    /\ ReportedVMFault("aarch64")
    /\ msg.mr[4] = <<8, 36 * 1024, 0, 0>>
    /\ AfterBy("MON|ERROR:   dfsc = ", 1) = {"<unexpected DFSC>"}

-----------------------------------------------------------------------------
(* The dumps of a failed manifest check *)

\* positions of an entry in the output
Where(e) == {n \in 1..Len(out) : out[n] = e}

\* number of slots of the embedded manifest
Slots(ui) == ui.cap_end[1] - ui.cap_start[1]

\* a range printed by the dump of the embedded manifest at position n covers the region r
RangeCovers(n, r) ==
    /\ n + 5 <= Len(out)
    /\ out[n] = Str("                                     paddr: ")
    /\ ~Lt64(r.paddr, out[n + 1].val)
    /\ ~Lt64(out[n + 3].val, Add64(r.paddr, Pow2(r.size_bits)))
    /\ out[n + 5].text = (IF r.is_device # 0 THEN "device" ELSE "normal")

\* C16: when the manifest check fails, the halt is entered only after the kernel's boot
\* manifest and then the embedded manifest have been dumped: every untyped the kernel
\* lists is printed, after it every region of the embedded slot range lies in a printed
\* range of its class, and only then comes the text of the halt.
C16_BothDumpsBeforeHalt ==
    (pc = "HALTED" /\ ManifestMismatch(untyped_info, bi)) =>
        LET B == Where(Str("Bootinfo: "))
            U == Where(Str("\nUntyped Info Expected Memory Ranges\n"))
            F == Where(Str("FAIL: "))
        IN  /\ Cardinality(B) = 1 /\ Cardinality(U) = 1 /\ Cardinality(F) = 1
            /\ \A b \in B, u \in U, f \in F :
                /\ b < u /\ u < f
                /\ f = Len(out) - 2
                /\ \A k \in 1..Len(bi.untypedList) :
                    \E n \in b..u : /\ out[n] = Str("untyped: ")
                                    /\ out[n + 1] = Hex64(bi.untypedList[k].paddr)
                /\ \A k \in 1..Slots(untyped_info) :
                    \E n \in u..f : RangeCovers(n, untyped_info.regions[k])

\* C16 witness: the check failed on two slots and two ranges of the embedded manifest
\* were dumped before the halt.
C16_Witness ==
    /\ pc = "HALTED"
    /\ ManifestMismatch(untyped_info, bi)
    /\ Slots(untyped_info) = 2
    /\ Cardinality(Where(Str("                                     paddr: "))) = 2
    /\ Where(Str("Bootinfo: ")) # {}

-----------------------------------------------------------------------------
(* The hand-off to the monitor loop *)

AllCallsSucceeded == \A n \in 1..Len(calls) : calls[n].result = seL4_NoError

NoUnwrappedRecord ==
    \A b \in {"bootstrap", "system"} :
        \A k \in 1..Len(records[b]) : HeaderUnwrapped(records[b][k]) = 0

MonitorStates == {"WAITING", "DISPATCHING", "HALTED"}

\* a halt before the first receive has a cause the premises of C17 exclude
BootHaltHasCause(causes) == (pc = "HALTED" /\ msg = NoMsg) => causes

-----------------------------------------------------------------------------
(* The offset perform_invocation returns *)

\* the length (bits 0..6) and extraCaps (bits 7..8) fields of a record's header word
HeaderLength(rec) == rec[1][1] % 128
HeaderExtraCaps(rec) == (rec[1][1] \div 128) % 4

\* C18: perform_invocation returns offset + 2 + cap_count + mr_count for a record of one
\* iteration and offset + 2 + 2 * (cap_count + mr_count) + 1 for a record of more, whatever
\* the number of iterations is beyond that.
C18_ReturnedOffset ==
    [][(pc = "call" /\ pc' = "loop") =>
        LET rec == records[buf][idx + 1]
            n == HeaderExtraCaps(rec) + HeaderLength(rec)
        IN  offset' = IF HeaderHi(rec) = 0 THEN offset + 2 + n ELSE offset + 2 + 2 * n + 1]_vars

\* C18 witness: a record of three iterations that starts past the head of its buffer has
\* returned, and main holds the offset past its strides.
C18_Witness ==
    /\ pc = "loop"
    /\ idx = 2
    /\ records[buf][2] = RecIter
    /\ RecordStart(buf, 1) > 0
    /\ offset = RecordStart(buf, 1) + 2 + 2 * (HeaderExtraCaps(RecIter) + HeaderLength(RecIter)) + 1

-----------------------------------------------------------------------------
(* The stack test and the register read *)

\* the line of the stack test is in the output of the dispatch
StackOverflowFlagged ==
    Where(Str("MON|ERROR: potential stack overflow, fault address within one page outside of stack region\n")) # {}

\* C19: a VM fault is flagged as a potential stack overflow exactly when the fault address
\* is below the stack base of the component and at most 0x1000 bytes below it, for every
\* stack base, those below 0x1000 included.
C19_FlaggedIffWithinPageBelowBase ==
    (Dispatched /\ TrueFault(msg) /\ ReadSucceeded /\ msg.label = seL4_Fault_VMFault) =>
        LET fault_addr == msg.mr[2]
            stack_base == pd_stack_addrs[msg.badge]
        IN  StackOverflowFlagged <=>
                /\ Lt64(fault_addr, stack_base)
                /\ ~Lt64(W(4096), Sub64(stack_base, fault_addr))

\* positions in the output of the dispatch of text that tells the kind of the fault
KindTexts ==
    Reports
    \cup {n \in 1..Len(out) :
            out[n].text \in {"MON|ERROR: description of fault: ", "MON|ERROR:   ec: ",
                             "MON|ERROR:   dfsc = ", "  lookup_failure_type=",
                             "MON|ERROR: Unknown vCPU fault\n",
                             "MON|ERROR: potential undefined behaviour detected by UBSAN for: '"}}

\* C20: for a message with a valid badge and a non-null label, seL4_TCB_ReadRegisters is
\* called exactly once, on pd_tcbs[badge], before any text that tells the kind of the
\* fault is printed; when the read returns an error the monitor is halted and nothing that
\* tells the kind of the fault has been printed.
C20_ReadOnceBeforeDecoding ==
    (Dispatched /\ TrueFault(msg)) =>
        /\ ReadOps = {1}
        /\ ops[1].a = pd_tcbs[msg.badge]
        /\ \A n \in KindTexts : n > ops[1].at
        /\ \A n \in 2..Len(ops) : ops[n].at >= ops[1].at
        /\ ops[1].err # seL4_NoError =>
            (pc = "HALTED" /\ KindTexts = {} /\ Len(ops) = 1
             /\ out[Len(out) - 1] = Str("error reading registers"))

\* C20 witness: the register read of a VM fault of component 2 returned an error and the
\* monitor is halted.
C20_Witness ==
    /\ pc = "HALTED"
    /\ msg.label = seL4_Fault_VMFault
    /\ msg.badge = 2
    /\ ReadOps = {1}
    /\ ops[1].err # seL4_NoError

-----------------------------------------------------------------------------
(* The passive branch *)

\* C21: once a passivation request for badge b is dispatched, the kernel calls of the
\* dispatch are exactly two, issued with no output in between: the unbind of
\* scheduling_contexts[b] from pd_tcbs[b], then the bind of scheduling_contexts[b] to
\* notification_caps[b], all three the registry entries of the badge of the message.
C21_PassiveIsUnbindThenBind ==
    (Dispatched /\ msg.label = seL4_Fault_NullFault /\ msg.badge < MAX_PDS) =>
        /\ Len(ops) = 2
        /\ ops[1].op = "seL4_SchedContext_UnbindObject"
        /\ ops[1].a = scheduling_contexts[msg.badge]
        /\ ops[1].b = pd_tcbs[msg.badge]
        /\ ops[2].op = "seL4_SchedContext_Bind"
        /\ ops[2].a = scheduling_contexts[msg.badge]
        /\ ops[2].b = notification_caps[msg.badge]
        /\ ops[1].at = ops[2].at

\* C21 witness: the passivation request of component 2 was dispatched into the calls on
\* the registry entries of badge 2, and the unbind failed.
C21_Witness ==
    /\ Dispatched
    /\ msg.label = seL4_Fault_NullFault
    /\ msg.badge = 2
    /\ Len(ops) = 2
    /\ ops[1].b = pd_tcbs[2]
    /\ ops[2].b = notification_caps[2]
    /\ ops[1].err # seL4_NoError

-----------------------------------------------------------------------------
(* The slots of a call *)

\* C22: in every call of the executor, message words 0..3 below mr_count are handed over
\* in mr0..mr3 and never written to the IPC buffer, message words 4..mr_count-1 are
\* written to the IPC buffer at their own index, capability j is written to slot j for
\* j < cap_count, and no register, message word or capability slot at or past the count
\* of the record is written.
C22_SlotsWritten ==
    [][calls' # calls =>
        LET c == calls'[Len(calls')]
            rec == records[c.buf][c.idx + 1]
            cc == seL4_MessageInfo_get_extraCaps(rec[1])
            mc == seL4_MessageInfo_get_length(rec[1])
        IN  /\ \A j \in 0..3 :
                /\ j \notin DOMAIN ipc_msg'
                /\ c.regs[j + 1] = IF j < mc THEN Prescribed(rec, 3 + cc + j, c.i) ELSE Junk
            /\ \A j \in 4..(mc - 1) :
                /\ j \in DOMAIN ipc_msg'
                /\ ipc_msg'[j] = Prescribed(rec, 3 + cc + j, c.i)
            /\ \A j \in DOMAIN ipc_msg' :
                j >= mc => (j \in DOMAIN ipc_msg /\ ipc_msg'[j] = ipc_msg[j])
            /\ \A j \in 0..(cc - 1) :
                /\ j \in DOMAIN ipc_caps'
                /\ ipc_caps'[j] = Prescribed(rec, 3 + j, c.i)
            /\ \A j \in DOMAIN ipc_caps' :
                j >= cc => (j \in DOMAIN ipc_caps /\ ipc_caps'[j] = ipc_caps[j])]_vars

\* C22 witness: a call of the record with no capability and no message word was issued
\* after the three calls of the five-word record: mr0..mr3 are not set, and message word 4
\* and capability slot 0 still hold what the third of those calls wrote.
C22_Witness ==
    /\ calls # <<>>
    /\ records[calls[Len(calls)].buf][calls[Len(calls)].idx + 1] = RecBare
    /\ calls[Len(calls)].regs = <<Junk, Junk, Junk, Junk>>
    /\ 4 \in DOMAIN ipc_msg
    /\ ipc_msg[4] = W(37)
    /\ 0 \in DOMAIN ipc_caps
    /\ ipc_caps[0] = W(32)

-----------------------------------------------------------------------------
(* The diagnostic of a failed call *)

\* the position in the output at which the diagnostic of a failed call starts
ErrorLines == {n \in 1..Len(out) : out[n] = Str("ERROR: ")}

\* C23: after a failed call the output ends with the diagnostic and the fail text; the
\* diagnostic names the result of the last call of the log, the index of its record
\* counted from the start of its own buffer, and its iteration, which is the number of
\* calls the record had issued before; and no diagnostic is printed without a failed call.
C23_DiagnosticNamesFailingCall ==
    /\ (ErrorLines # {}) => (calls # <<>> /\ calls[Len(calls)].result # seL4_NoError)
    /\ (calls # <<>> /\ calls[Len(calls)].result # seL4_NoError) =>
        LET c == calls[Len(calls)]
            n == Len(out) - 11
        IN  /\ ErrorLines = {n}
            /\ out[n + 1] = Hex64(W(c.result))
            /\ out[n + 4] = Str("  invocation idx: ")
            /\ out[n + 5] = Hex32(W(c.idx))
            /\ out[n + 6] = Str(".")
            /\ out[n + 7] = Hex32(W(c.i))
            /\ SubSeq(out, n + 9, n + 11) = fail_out("invocation error")
            /\ c.buf = buf
            /\ c.idx < Len(records[buf])
            /\ offset = RecordStart(buf, c.idx)
            /\ c.service = Prescribed(records[buf][c.idx + 1], 2, c.i)
            /\ Cardinality(CallsOf(buf, c.idx)) = c.i + 1
            /\ \A k \in 1..(Len(calls) - 1) : calls[k].result = seL4_NoError

\* C23 witness: the second call of the first record of the system buffer failed after
\* the bootstrap buffer had run two records: the diagnostic names 0.1.
C23_Witness ==
    /\ pc = "HALTED"
    /\ buf = "system"
    /\ Len(records.bootstrap) = 2
    /\ ErrorLines # {}
    /\ calls[Len(calls)].result = seL4_IllegalOperation
    /\ out[Len(out) - 6] = Hex32(W(0))
    /\ out[Len(out) - 4] = Hex32(W(1))

-----------------------------------------------------------------------------
(* The halt routine *)

\* positions in the output at which the text of the halt routine starts
FailLines == {n \in 1..Len(out) : out[n] = Str("FAIL: ")}

\* the reasons main and monitor() give to the halt routine
FailReasons ==
    {"MON|ERROR: found mismatch between boot info and untyped info",
     "kernel invocation should never have unwrapped caps", "invocation error",
     "MON|ERROR: unknown/invalid badge\n", "error reading registers"}

\* C24: the halt routine is entered exactly when the monitor is HALTED; its text (the
\* reason of one of the five callers) is the last output, and from then on no step
\* changes anything: no kernel call, receive, registry access or output, and no return
\* to the caller.
C24_HaltedIsAbsorbing ==
    /\ [](FailLines # {} <=> pc = "HALTED")
    /\ [](pc = "HALTED" =>
            /\ FailLines = {Len(out) - 2}
            /\ out[Len(out) - 1].text \in FailReasons
            /\ out[Len(out)] = Str("\n"))
    /\ [][FailLines # {} => UNCHANGED vars]_vars

\* C24 witness: the halt routine was entered from the fault monitor loop on a failed
\* register read, after the scripts had run.
C24_Witness ==
    /\ pc = "HALTED"
    /\ FailLines # {}
    /\ out[Len(out) - 1] = Str("error reading registers")
    /\ calls # <<>>
    /\ Len(ops) = 1

-----------------------------------------------------------------------------
(* No reply *)

\* the kernel calls that read the registers of a thread
RegisterReads == {"seL4_TCB_ReadRegisters", "seL4_TCB_CheriReadRegister"}

\* C25: whatever message was dispatched (a passive request, a fault of any kind, an
\* unknown label, a bad badge), the kernel calls of the dispatch are only the two
\* scheduling-context calls and register reads: nothing is sent to the component, and a
\* reported fault is followed by the next receive only.
C25_NoReplyToComponent ==
    /\ \A n \in 1..Len(ops) :
        ops[n].op \in {"seL4_SchedContext_UnbindObject", "seL4_SchedContext_Bind"} \cup RegisterReads
    /\ (Dispatched /\ Reports # {}) =>
        /\ pc = "WAITING"
        /\ \A n \in 1..Len(ops) : ops[n].op \in RegisterReads

\* C25 witness: a VM fault of a component of the CHERI build was reported, with the read
\* of the thread's registers and the reads of its capability registers as the only
\* kernel calls.
C25_Witness ==
    /\ Dispatched
    /\ pc = "WAITING"
    /\ msg.label = seL4_Fault_VMFault
    /\ build.cheri
    /\ Reports # {}
    /\ Len(ops) > 1
    /\ ops[1].op = "seL4_TCB_ReadRegisters"
    /\ ops[Len(ops)].op = "seL4_TCB_CheriReadRegister"

-----------------------------------------------------------------------------
(* What is never written *)

\* the invocation buffers with their counts, the embedded manifest, the registry arrays
ReadOnlyData ==
    <<bootstrap_invocation_count, bootstrap_invocation_data, system_invocation_count,
      system_invocation_data, untyped_info, pd_names, pd_tcbs, scheduling_contexts,
      notification_caps, pd_stack_addrs>>

\* C26: no step of script execution or of the fault monitor loop changes the invocation
\* buffers, the embedded manifest or a registry array, so that in every reachable state
\* the buffers hold the records they were built from and the manifest and the registry
\* hold what the build tool embedded.
C26_ReadOnlyDataUnchanged ==
    /\ [][UNCHANGED ReadOnlyData]_vars
    /\ [](/\ bootstrap_invocation_data = Flatten(records.bootstrap)
          /\ system_invocation_data = Flatten(records.system)
          /\ untyped_info = MainManifest
          /\ pd_names = RegistryNames
          /\ pd_tcbs = RegistryWords(100)
          /\ scheduling_contexts = RegistryWords(200)
          /\ notification_caps = RegistryWords(300)
          /\ pd_stack_addrs = RegistryStacks(W(65536), W(65536)))

\* C26 witness: both scripts issued calls, a VM fault of a component was then
\* reported, and the registry is the embedded one.
C26_Witness ==
    /\ pc = "WAITING"
    /\ Dispatched
    /\ msg.label = seL4_Fault_VMFault
    /\ Reports # {}
    /\ CallsOf("bootstrap", 0) # {}
    /\ CallsOf("system", 0) # {}
    /\ 4 \in DOMAIN ipc_msg
    /\ pd_tcbs = RegistryWords(100)
    /\ pd_stack_addrs = RegistryStacks(W(65536), W(65536))

-----------------------------------------------------------------------------
(* vCPU faults *)

\* the sanitizer checks in the order of their codes, from 0
UbsanCheckNames ==
    <<"add overflow", "builtin unreachable", "control-flow-integrity check fail",
      "division remainder overflow", "dynamic type cache miss", "float case overflow",
      "function type mismatch", "implicit conversion", "invalid builtin",
      "invalid objc cast", "load invalid value", "missing return",
      "multiplication overflow", "negate overflow", "nullability argument",
      "nullability return", "non-null argument", "non-null return", "out of bounds access",
      "pointer overflow", "shift out of bounds", "subtraction overflow", "type mismatch",
      "alignment assumption", "variable-length-array bound not positive">>

\* a vCPU fault of a component was reported by a build with hypervisor support
ReportedVCPUFault ==
    /\ Dispatched /\ TrueFault(msg) /\ ReadSucceeded
    /\ msg.label = seL4_Fault_VCPUFault /\ build.hyp

\* the syndrome has exception class 60 (all of its bits from bit 26 up) and a comment
\* 0x55xx in its low 16 bits
IsUbsanTrap(esr) ==
    /\ esr[4] = 0 /\ esr[3] = 0 /\ esr[2] \div 1024 = 60
    /\ esr[1] \div 256 = 85

\* C27: the report of a vCPU fault is the syndrome followed by the UBSAN line if and only
\* if the syndrome >> 26 is 60 and its low 16 bits with the low byte cleared are 0x5500;
\* the check named is the one whose code is the low 8 bits of the syndrome (the unknown
\* reason when no check has the code); every other syndrome is reported as an unknown
\* vCPU fault.
C27_UbsanTrapIffBrkComment ==
    ReportedVCPUFault =>
        LET esr == msg.mr[1]
            code == esr[1] % 256
            n == CHOOSE k \in Reports : TRUE
        IN  /\ Cardinality(Reports) = 1
            /\ out[n + 1] = Hex64(esr)
            /\ SubSeq(out, n + 3, Len(out)) =
                   IF IsUbsanTrap(esr)
                   THEN <<Str("MON|ERROR: potential undefined behaviour detected by UBSAN for: '"),
                          Str(IF code < Len(UbsanCheckNames) THEN UbsanCheckNames[code + 1]
                              ELSE "unknown reason"),
                          Str("'\n")>>
                   ELSE <<Str("MON|ERROR: Unknown vCPU fault\n")>>

\* C27 witness: a brk with comment 0x5512 was reported as the out-of-bounds check.
C27_Witness ==
    /\ ReportedVCPUFault
    /\ msg.mr[1] = <<UBSAN_ARM64_BRK_IMM + 18, ARM64_BRK_EC * 1024, 0, 0>>
    /\ Len(out) > 2
    /\ out[Len(out) - 1] = Str("out of bounds access")

-----------------------------------------------------------------------------
(* The range summary *)

\* the end of a region: paddr + 2^size_bits
RegionEnd(r) == Add64(r.paddr, Pow2(r.size_bits))

\* region k (from 1) goes on the run of region k - 1: it starts at that region's end and
\* has its device flag
GoesOn(ui, k) ==
    /\ k > 1
    /\ ui.regions[k].paddr = RegionEnd(ui.regions[k - 1])
    /\ ui.regions[k].is_device = ui.regions[k - 1].is_device

\* the first regions of the maximal runs among the regions of the slot range
RunStarts(ui) == {k \in 1..Slots(ui) : ~GoesOn(ui, k)}

\* the last region of the run that starts at region s
RunLast(ui, s) ==
    CHOOSE e \in s..Slots(ui) :
        /\ \A k \in (s + 1)..e : GoesOn(ui, k)
        /\ (e = Slots(ui) \/ ~GoesOn(ui, e + 1))

\* base + 2^size_bits summed over the regions s..e
RECURSIVE RunEnd(_, _, _)
RunEnd(ui, s, e) ==
    IF e = s THEN RegionEnd(ui.regions[s])
    ELSE Add64(RunEnd(ui, s, e - 1), Pow2(ui.regions[e].size_bits))

\* the dump of the embedded manifest is, after its heading, one line per maximal run, in
\* the order of the runs, from the base of the run to the sum of its sizes past it
RangePerRun(ui) ==
    LET U == Where(Str("\nUntyped Info Expected Memory Ranges\n"))
        u == CHOOSE n \in U : TRUE
        f == CHOOSE n \in Where(Str("FAIL: ")) : TRUE
    IN  /\ Cardinality(U) = 1
        /\ f = u + 1 + 7 * Cardinality(RunStarts(ui))
        /\ \A s \in RunStarts(ui) :
            LET j == Cardinality({t \in RunStarts(ui) : t < s})
            IN  SubSeq(out, u + 1 + 7 * j, u + 7 + 7 * j) =
                    <<Str("                                     paddr: "),
                      Hex64(ui.regions[s].paddr), Str(" - "),
                      Hex64(RunEnd(ui, s, RunLast(ui, s))), Str(" ("),
                      Str(IF ui.regions[s].is_device # 0 THEN "device" ELSE "normal"),
                      Str(")\n")>>

\* C28: the dump of the embedded manifest prints exactly one range per maximal run of
\* regions of the slot range that each start at the end of the region before and have
\* its device flag, from the base of the first region of the run to the sum of the
\* sizes past it.
C28_OneRangePerRun == (pc = "HALTED") => RangePerRun(untyped_info)

\* the same for the manifests with at least one region in the slot range
NonEmptyManifestRangePerRun ==
    (pc = "HALTED" /\ Slots(untyped_info) > 0) => RangePerRun(untyped_info)

\* a manifest of four regions in two runs, the first of three regions, was dumped as two
\* ranges
TwoRunsDumped ==
    /\ pc = "HALTED"
    /\ Slots(untyped_info) = 4
    /\ RunStarts(untyped_info) = {1, 4}
    /\ Cardinality(Where(Str("                                     paddr: "))) = 2

-----------------------------------------------------------------------------
(* Fault status words of a CHERI RISC-V build *)

\* the CHERI causes by bits 0..3 and the CHERI fault types by bits 4..7, from 0
CheriCauseNames ==
    <<"Tag violation", "Seal violation", "Permission violation", "Invalid address violation",
      "Bounds violation">>

CheriTypeNames ==
    <<"CHERI instruction fetch fault", "CHERI data fault due to load, store or AMO",
      "CHERI jump or branch fault">>

\* the element of names for the code, or the fallback
Named(names, code, fallback) == IF code < Len(names) THEN names[code + 1] ELSE fallback

\* C29: on a CHERI RISC-V build a VM fault whose status word has bit 11 set is reported
\* as a CHERI security violation, with the cause of bits 0..3 and the fault type of bits
\* 4..7, whatever the other bits; with bit 11 clear it is reported as a VM fault with no
\* fault type, and its cause is the generic unexpected-FSR string unless the whole word
\* is a case label of the standard table.
C29_CheriViolationByBit11 ==
    (ReportedVMFault("riscv64") /\ build.cheri) =>
        LET fsr == msg.mr[4]
            n == CHOOSE k \in Reports : TRUE
        IN  /\ Cardinality(Reports) = 1
            /\ out[n + 5] = Hex64(fsr)
            /\ IF (fsr[1] \div 2048) % 2 = 1
               THEN /\ out[n].text = "MON|ERROR: CHERI Security Violation: ip="
                    /\ AfterBy("MON|ERROR: description of fault: ", 1) =
                           {Named(CheriCauseNames, fsr[1] % 16, "Unexpected CHERI fault")}
                    /\ AfterBy("MON|ERROR: CHERI fault type: ", 1) =
                           {Named(CheriTypeNames, (fsr[1] \div 16) % 16,
                                  "Unexpected CHERI fault type")}
               ELSE /\ out[n].text = "MON|ERROR: VMFault: ip="
                    /\ AfterBy("MON|ERROR: CHERI fault type: ", 1) = {}
                    /\ Decoded(AfterBy("MON|ERROR: description of fault: ", 1),
                               "<Unexpected FSR>",
                               \E k \in RiscvCauses : fsr = <<k, 0, 0, 0>>)

\* C29 witness: a status word with bit 11, cause 2, type 1 and bits 8, 10, 12 and higher
\* ones set was reported as a permission violation of a data access.
C29_Witness ==
    /\ ReportedVMFault("riscv64")
    /\ build.cheri
    /\ msg.mr[4] = <<4096 + 2048 + 1024 + 256 + 16 + 2, 7, 0, 1>>
    /\ AfterBy("MON|ERROR: description of fault: ", 1) = {"Permission violation"}
    /\ AfterBy("MON|ERROR: CHERI fault type: ", 1) =
           {"CHERI data fault due to load, store or AMO"}

-----------------------------------------------------------------------------
(* Fault status words of an AArch64 build *)

\* the exception class of the word is 0x24: its bits from bit 26 up are 100100
IsDataAbort(fsr) == fsr[4] = 0 /\ fsr[3] = 0 /\ fsr[2] \div 1024 = 36

\* the flags the decoder names after the sub-code, in its order, with their bits
AbortFlags ==
    <<[at |-> 512, text |-> " -- external abort"],
      [at |-> 256, text |-> " -- cache maint"],
      [at |-> 128, text |-> " -- stage 2 fault for stage 1 page table walk"],
      [at |-> 64, text |-> " -- write not read"]>>

\* the texts of the flags from the k-th on that are set in the low 16 bits lo
RECURSIVE FlagTexts(_, _)
FlagTexts(lo, k) ==
    IF k > Len(AbortFlags) THEN <<>>
    ELSE (IF (lo \div AbortFlags[k].at) % 2 = 1 THEN <<Str(AbortFlags[k].text)>> ELSE <<>>)
         \o FlagTexts(lo, k + 1)

\* what monitor() prints after the report of a VM fault: the stack overflow line or nothing
AfterVMReport ==
    {<<>>,
     <<Str("MON|ERROR: potential stack overflow, fault address within one page outside of stack region\n")>>}

\* C30: the report of a VM fault on AArch64 prints the exception class as the word
\* shifted right by 26, the IL flag as bit 25 and the ISS as the low 25 bits; the line
\* with the data-abort sub-code (ISS & 0x3f) and the external-abort, cache-maintenance,
\* stage-1-walk and write-not-read flags follows if and only if the class is 0x24, and
\* nothing of the syndrome follows for any other class.
C30_SubCodeIffDataAbort ==
    ReportedVMFault("aarch64") =>
        LET fsr == msg.mr[4]
            n == CHOOSE k \in Reports : TRUE
            lo == fsr[1]
        IN  /\ Cardinality(Reports) = 1
            /\ out[n + 9] = Str("MON|ERROR:   ec: ")
            /\ out[n + 10].val = <<(fsr[2] \div 1024) + (fsr[3] % 1024) * 64,
                                   (fsr[3] \div 1024) + (fsr[4] % 1024) * 64, 0, 0>>
            /\ out[n + 13] = Str("   il: ")
            /\ out[n + 14] = Str(IF (fsr[2] \div 512) % 2 = 1 THEN "1" ELSE "0")
            /\ out[n + 15] = Str("   iss: ")
            /\ out[n + 16].val = <<fsr[1], fsr[2] % 512, 0, 0>>
            /\ out[n + 17] = Str("\n")
            /\ AfterBy("MON|ERROR:   dfsc = ", 0) =
                   IF IsDataAbort(fsr) THEN {"MON|ERROR:   dfsc = "} ELSE {}
            /\ IF IsDataAbort(fsr)
               THEN /\ out[n + 18] = Str("MON|ERROR:   dfsc = ")
                    /\ out[n + 21] = Hex32(W(lo % 64))
                    /\ SubSeq(out, n + 23, n + 22 + Len(FlagTexts(lo, 1))) = FlagTexts(lo, 1)
                    /\ out[n + 23 + Len(FlagTexts(lo, 1))] = Str("\n")
                    /\ SubSeq(out, n + 24 + Len(FlagTexts(lo, 1)), Len(out)) \in AfterVMReport
               ELSE SubSeq(out, n + 18, Len(out)) \in AfterVMReport

\* C30 witness: a word of class 0x25 with status and write-not-read bits set was reported
\* with its class, IL and ISS and no sub-code line.
C30_Witness ==
    /\ ReportedVMFault("aarch64")
    /\ msg.mr[4] = <<64 + 7, 37 * 1024, 0, 0>>
    /\ AfterBy("MON|ERROR:   dfsc = ", 0) = {}
    /\ AfterBy("MON|ERROR:   ec: ", 1) # {}

-----------------------------------------------------------------------------
(* puthex32 and puthex64 *)

\* the value of a hexadecimal digit character
DigitValue(c) == IF c <= 57 THEN c - 48 ELSE c - 87

\* the characters of the lowercase hexadecimal digits
HexDigits == (48..57) \cup (97..102)

\* the 16-bit number the four digits of cs from position p on denote, the first the
\* most significant
Limb16(cs, p) ==
    DigitValue(cs[p]) * 4096 + DigitValue(cs[p + 1]) * 256 + DigitValue(cs[p + 2]) * 16
        + DigitValue(cs[p + 3])

\* cs is "0x" and n lowercase digits (n = 8 or 16) that denote the word w, zero-padded,
\* most significant digit first
Renders(cs, n, w) ==
    /\ Len(cs) = n + 2
    /\ cs[1] = 48 /\ cs[2] = 120
    /\ \A k \in 3..(n + 2) : cs[k] \in HexDigits
    /\ \A k \in 1..(n \div 4) : Limb16(cs, n + 3 - 4 * k) = w[k]
    /\ \A k \in (n \div 4 + 1)..4 : w[k] = 0

\* C31: puthex32 prints 0x and 8 lowercase digits that denote its argument modulo 2^32,
\* puthex64 prints 0x and 16 lowercase digits that denote its argument, zero-padded with
\* the most significant digit first; two arguments are printed alike exactly when they
\* are equal (modulo 2^32 for puthex32).
C31_HexDigitsDenoteValue ==
    (pc = "printed") =>
        LET a == msg.mr[1]
            b == msg.mr[2]
        IN  /\ Len(out) = 4
            /\ Renders(out[1].chars, 8, Low32(a))
            /\ Renders(out[2].chars, 8, Low32(b))
            /\ Renders(out[3].chars, 16, a)
            /\ Renders(out[4].chars, 16, b)
            /\ (out[1].chars = out[2].chars) <=> (Low32(a) = Low32(b))
            /\ (out[3].chars = out[4].chars) <=> (a = b)

\* C31 witness: 0x0123456789abcdef and 0x89abcdef were printed: alike by puthex32 as
\* 0x89abcdef, and not alike by puthex64.
C31_Witness ==
    /\ pc = "printed"
    /\ msg.mr[1] = <<52719, 35243, 17767, 291>>
    /\ msg.mr[2] = <<52719, 35243, 0, 0>>
    /\ out[1].chars = <<48, 120, 56, 57, 97, 98, 99, 100, 101, 102>>
    /\ out[2].chars = out[1].chars
    /\ out[3].chars = <<48, 120, 48, 49, 50, 51, 52, 53, 54, 55, 56, 57, 97, 98, 99, 100, 101, 102>>
    /\ out[4].chars # out[3].chars

-----------------------------------------------------------------------------
(* libmicrokit: channel validity *)

\* the mask a call of the protection domain tests
MaskOf(l) ==
    CASE l.fn \in {"microkit_notify", "microkit_deferred_notify"} -> l.microkit_notifications
      [] l.fn \in {"microkit_irq_ack", "microkit_deferred_irq_ack"} -> l.microkit_irqs
      [] OTHER -> l.microkit_pps

\* the first capability of the table a call addresses
BaseOf(l) ==
    CASE l.fn \in {"microkit_notify", "microkit_deferred_notify"} -> BASE_OUTPUT_NOTIFICATION_CAP
      [] l.fn \in {"microkit_irq_ack", "microkit_deferred_irq_ack"} -> BASE_IRQ_CAP
      [] OTHER -> BASE_ENDPOINT_CAP

\* the channel of the call is at most 61 and its bit is set in the mask of the call
ValidChannel(l) ==
    /\ l.ch <= 61
    /\ (MaskOf(l)[(l.ch \div 16) + 1] \div 2^(l.ch % 16)) % 2 = 1

Deferring == {"microkit_deferred_notify", "microkit_deferred_irq_ack"}

\* the deferred signal
Pending(l) == <<l.microkit_have_signal, l.microkit_signal_cap, l.microkit_signal_msg>>

\* C32: a call of microkit_notify, microkit_irq_ack, microkit_ppcall,
\* microkit_deferred_notify or microkit_deferred_irq_ack on a channel above 61 or with
\* its bit clear in the mask of the call issues no kernel operation and leaves the
\* deferred signal as it was, and microkit_ppcall returns the all-zero message info; on a
\* valid channel the kernel operation, or the deferred signal, is on base + ch.
C32_OnlyValidChannelsAct ==
    [][lib' # lib =>
        IF ~ValidChannel(lib')
        THEN /\ lib'.ops = <<>>
             /\ Pending(lib') = Pending(lib)
             /\ lib'.ret = W(0)
        ELSE IF lib'.fn \in Deferring
        THEN /\ lib'.ops = <<>>
             /\ lib'.microkit_signal_cap = BaseOf(lib') + lib'.ch
        ELSE /\ Len(lib'.ops) = 1
             /\ lib'.ops[1].cap = BaseOf(lib') + lib'.ch
             /\ Pending(lib') = Pending(lib)]_vars

\* C32 witness: with every bit of the masks set and a signal pending on channel 61,
\* microkit_ppcall on channel 62 issued nothing and returned zero.
C32_Witness ==
    /\ lib.fn = "microkit_ppcall"
    /\ lib.ch = 62
    /\ lib.microkit_pps = Neg(1)
    /\ lib.ops = <<>>
    /\ lib.dbg # <<>>
    /\ lib.ret = W(0)
    /\ lib.microkit_have_signal
    /\ lib.microkit_signal_cap = BASE_IRQ_CAP + 61

-----------------------------------------------------------------------------
(* libmicrokit: the deferred signal *)

\* C38: after a successful microkit_deferred_notify or microkit_deferred_irq_ack the
\* pending signal is the capability and the message of that call, whatever was pending
\* before, and the call issued no kernel operation: the signal that was pending is
\* overwritten and not sent. Every other call leaves the pending signal as it found it.
C38_LastDeferredCallPending ==
    IF lib.fn \in Deferring /\ ValidChannel(lib)
    THEN /\ lib.ops = <<>>
         /\ Pending(lib) =
                <<TRUE, BaseOf(lib) + lib.ch,
                  IF lib.fn = "microkit_deferred_irq_ack" THEN W(IRQAckIRQ * 4096) ELSE W(0)>>
    ELSE Pending(lib) = lib.was

\* C38 witness: the acknowledgement of interrupt 61 was pending when
\* microkit_deferred_notify was called on channel 1: the notification of channel 1 is
\* pending and nothing was sent.
C38_Witness ==
    /\ lib.fn = "microkit_deferred_notify"
    /\ lib.ch = 1
    /\ lib.was = <<TRUE, BASE_IRQ_CAP + 61, W(IRQAckIRQ * 4096)>>
    /\ Pending(lib) = <<TRUE, BASE_OUTPUT_NOTIFICATION_CAP + 1, W(0)>>
    /\ lib.ops = <<>>

-----------------------------------------------------------------------------
(* The registry reads of the monitor loop *)

\* C33: every registry array the monitor loop indexes for a message is indexed below
\* MAX_PDS, whatever badge the message carries.
C33_RegistryReadsBelowMaxPds ==
    \A k \in 1..Len(msg.reads) : msg.reads[k].index < MAX_PDS

\* every read of an array other than pd_tcbs is below MAX_PDS
GuardedReadsBelowMaxPds ==
    \A k \in 1..Len(msg.reads) :
        msg.reads[k].array # "pd_tcbs" => msg.reads[k].index < MAX_PDS

-----------------------------------------------------------------------------
(* The loop counter of the executor *)

\* the high 32 bits of the header of the record being executed
LoopHeaderHi == Shr32(bootstrap_invocation_data[1])

\* a pass of the iteration loop whose call succeeded
LoopPass == pc = "call" /\ pc' = "call" /\ inv' # inv

\* C34: when every call succeeds, each pass of the iteration loop raises the 32-bit loop
\* counter, for every value of the header's high 32 bits: the counter never wraps around
\* before the loop bound is reached, so the loop is left after finitely many calls.
C34_CounterNeverWraps == [][LoopPass => Lt64(inv.i, inv'.i)]_vars

\* for every header whose high 32 bits are not all ones the counter is raised by each pass
\* and the loop is left exactly when the counter is the iteration count
CounterReachesBoundBelowMax ==
    [][(LoopHeaderHi # <<65535, 65535, 0, 0>>) =>
        /\ LoopPass => Lt64(inv.i, inv'.i)
        /\ (pc = "call" /\ pc' = "loop") =>
                (inv.i = Add64(LoopHeaderHi, W(1)) /\ offset' = inv.next_offset)]_vars

\* the counter has gone from 2^32 - 1 back to 0 under a header whose high 32 bits are all
\* ones: the loop is where it started
CounterWrapped ==
    /\ pc = "call"
    /\ LoopHeaderHi = <<65535, 65535, 0, 0>>
    /\ inv.i = W(0)
    /\ calls # <<>>
    /\ calls[Len(calls)].i = <<65535, 65535, 0, 0>>

-----------------------------------------------------------------------------
(* The region entries the manifest check and the dump read *)

\* the embedded manifest and the kernel agree on the slot range
SlotRangesAgree == untyped_info.cap_start = bi.start /\ untyped_info.cap_end = bi["end"]

\* no step of the boot has read regions[] past its end
NoReadPastRegions ==
    /\ \A k \in 1..Len(out) : out[k].kind # "undefined"
    /\ pc # "main" => check_untypeds_match(untyped_info, bi).reads <= MAX_UNTYPED_REGIONS

\* C35: for every slot range on which the embedded manifest and the kernel agree, the end
\* below the start and ranges of more than MAX_UNTYPED_REGIONS slots included, the check
\* and the dump read regions[] and the kernel's list only below MAX_UNTYPED_REGIONS, and
\* with an empty slot range no entry is read at all (the check passes and nothing is
\* dumped).
C35_RegionReadsBelowMax ==
    SlotRangesAgree =>
        /\ NoReadPastRegions
        /\ (pc # "main" /\ untyped_info.cap_end = untyped_info.cap_start) =>
                /\ check_untypeds_match(untyped_info, bi).reads = 0
                /\ pc = "loop"

\* the slot range has at most MAX_UNTYPED_REGIONS slots (and its end is not below its start)
SlotRangeFits ==
    ~Lt64(W(MAX_UNTYPED_REGIONS), Sub64(untyped_info.cap_end, untyped_info.cap_start))

\* for the slot ranges of at most MAX_UNTYPED_REGIONS slots every read is below
\* MAX_UNTYPED_REGIONS and an empty range reads no entry
RegionReadsBelowMaxWhenRangeFits == SlotRangeFits => C35_RegionReadsBelowMax

-----------------------------------------------------------------------------
(* The calls of a record of several iterations *)

\* the record a call of the log belongs to
RecordOf(c) == records[c.buf][c.idx + 1]

\* what a call hands to the kernel
Carried(c) == <<c.service, c.caps, c.mrs>>

\* C36: every call of a record of several iterations carries cap_count capabilities and
\* mr_count message words that are all set (none is a word a reply left behind), and what
\* it carries is fixed by the record and the iteration alone: two calls of equal records
\* in the same iteration carry the same target, capabilities and message words, whatever
\* was executed before each of them.
C36_CallsSelfContained ==
    \A n \in 1..Len(calls) :
        HeaderHi(RecordOf(calls[n])) > 0 =>
            /\ Len(calls[n].caps) = HeaderExtraCaps(RecordOf(calls[n]))
            /\ Len(calls[n].mrs) = HeaderLength(RecordOf(calls[n]))
            /\ \A j \in 1..Len(calls[n].caps) : calls[n].caps[j] # Junk
            /\ \A j \in 1..Len(calls[n].mrs) : calls[n].mrs[j] # Junk
            /\ \A m \in 1..Len(calls) :
                    (RecordOf(calls[m]) = RecordOf(calls[n]) /\ calls[m].i = calls[n].i)
                        => Carried(calls[m]) = Carried(calls[n])

\* C36 witness: the five-word record is the first and the second record of the bootstrap
\* script; its second call was issued on a fresh transport the first time and after its own
\* three calls the second time, and carried the same values both times.
C36_Witness ==
    \E n \in 1..Len(calls), m \in 1..Len(calls) :
        /\ calls[n].idx = 0
        /\ calls[m].idx = 1
        /\ calls[m].buf = calls[n].buf
        /\ RecordOf(calls[n]) = RecIter
        /\ RecordOf(calls[m]) = RecIter
        /\ calls[n].i = 1
        /\ calls[m].i = 1
        /\ Carried(calls[m]) = <<W(110), <<W(31)>>, <<W(2), W(2), W(2), W(6), W(21)>>>>
        /\ Carried(calls[n]) = Carried(calls[m])

-----------------------------------------------------------------------------
(* The outcome of a passivation request *)

\* the two lines the passive branch may print
NowPassiveLine == \E n \in 1..Len(out) : out[n] = Str("' is now passive!\n")
BindFailedLine ==
    \E n \in 1..Len(out) :
        out[n] = Str("MON|ERROR: could not bind scheduling context to notification object")

\* C37: in the dispatch of a passivation request the bind call follows the unbind call
\* whatever the unbind returned, and the log follows the bind alone: the component is
\* reported passive exactly when the bind returned success, and the failure to bind
\* exactly when it did not.
C37_OutcomeFollowsBindOnly ==
    (Dispatched /\ msg.label = seL4_Fault_NullFault /\ msg.badge < MAX_PDS) =>
        \E n \in 2..Len(ops) :
            /\ ops[n - 1].op = "seL4_SchedContext_UnbindObject"
            /\ ops[n].op = "seL4_SchedContext_Bind"
            /\ NowPassiveLine <=> (ops[n].err = seL4_NoError)
            /\ BindFailedLine <=> (ops[n].err # seL4_NoError)

\* C37 witness: the unbind of component 1 failed, the bind succeeded, and the component is
\* reported passive.
C37_Witness ==
    /\ Dispatched
    /\ msg.label = seL4_Fault_NullFault
    /\ msg.badge = 1
    /\ Len(ops) = 2
    /\ ops[1].op = "seL4_SchedContext_UnbindObject"
    /\ ops[1].err # seL4_NoError
    /\ ops[2].op = "seL4_SchedContext_Bind"
    /\ ops[2].err = seL4_NoError
    /\ NowPassiveLine
    /\ ~BindFailedLine

====
